---- MODULE Spec2Model ----
(***************************************************************************)
(* ZTLNote: the repository store (src/src/store.rs) and the Organization   *)
(* engine on top of it (src/src/organization.rs).                          *)
(*                                                                         *)
(* The store is a directory tree: topics/<t>/paths/<p> holds the head id   *)
(* of a path, topics/<t>/_HEAD the current path of a topic, _CURRENT the   *)
(* current topic, meta/<id> the metadata record of a note, notes/<id> its  *)
(* content.  Each file is a component of the state below.                  *)
(***************************************************************************)
EXTENDS Integers, Sequences, FiniteSets, TLC

\* ------------------------------------------------------------------ bounds
\* Number of identifiers Uuid::new_v4() may mint in one run.
MaxNotes == 2
\* Largest history modifier N of a location `path:-N`.
MaxModifier == 1
\* Largest number of identifiers the index lists under one keyword.
MaxEntries == 2
\* Largest number of references of one note.
MaxReferences == 2

\* ------------------------------------------------------------- name spaces
TopicNames == {"t1", "t2"}
PathNames  == {"main", "p1"}
\* Option::None of a name, and of a Uuid.
NONE == "none"
NoId == 0
\* Identifiers are minted in increasing order: the n-th call of
\* Uuid::new_v4() yields n.  An identifier is never reused.
Ids == 1..MaxNotes
\* The metadata of an identifier that has no file under meta/.
NoMeta == [parent_id |-> NoId, topic |-> NONE, path |-> NONE]
\* The keywords of the index.
Keywords == {"k1", "k2"}
\* What Path::new(base_dir) may be: nothing, a repository, something else.
BaseDirs == {"absent", "repository", "other"}

VARIABLES
    topics,         \* directories under topics/
    CURRENT,        \* content of the file _CURRENT, NONE when absent
    current_topic,  \* Organization.current_topic, the engine's cache
    paths,          \* paths[t][p]: content of topics/t/paths/p, NoId when absent
    HEAD,           \* HEAD[t]: content of topics/t/_HEAD, NONE when absent
    meta,           \* meta[id]: record stored in meta/id, NoMeta when absent
    notes,          \* ids that have a file under notes/
    next_id,        \* the next identifier Uuid::new_v4() returns
    inflight,       \* a Store::add_note whose writes are under way (SpecCrash only)
    references,     \* references[id]: the reference lines of meta/id
    index,          \* index[k]: the identifiers the file index lists under k
    base_dir,       \* what is at the location of the repository
    racer           \* the Store::add_note of a second process (SpecRace only)

vars == <<topics, CURRENT, current_topic, paths, HEAD, meta, notes, next_id,
          inflight, references, index, base_dir, racer>>

store_vars == <<topics, CURRENT, paths, HEAD, meta, notes, next_id,
                references, index, base_dir>>

\* ------------------------------------------------------------------ store
\* Variant of topic_exists for which every topic exists.
topic_exists_any(ts, topic) == TRUE

\* Store::topic_exists
topic_exists(ts, topic) == topic \in ts

\* Store::path_exists: the file topics/<topic>/paths/<path> exists.
path_exists(ps, topic, path) ==
    /\ topic \in TopicNames
    /\ path \in PathNames
    /\ ps[topic][path] # NoId

\* Store::get_path(...).ok(): the head of the path, NoId on any error.
get_path(ps, topic, path) ==
    IF path_exists(ps, topic, path) THEN ps[topic][path] ELSE NoId

\* Variant of write_path in which the paths of the topic that share the
\* head of the written path are links to one file.
write_path_linked(ps, topic, path, uuid) ==
    [ps EXCEPT ![topic] =
        [p \in PathNames |->
            IF p = path \/ (ps[topic][path] # NoId /\ ps[topic][p] = ps[topic][path])
            THEN uuid ELSE ps[topic][p]]]

\* Store::write_path: create or overwrite the head file.
write_path(ps, topic, path, uuid) ==
    [ps EXCEPT ![topic][path] = uuid]

\* Variant of remove_path that empties the paths directory of the topic.
remove_path_all(ps, topic, path) ==
    [ps EXCEPT ![topic] = [p \in PathNames |-> NoId]]

\* Store::remove_path: delete the head file.
remove_path(ps, topic, path) ==
    [ps EXCEPT ![topic][path] = NoId]

\* Variant of reset_path that leaves the head file as it is.
reset_path_kept(ps, topic, path, uuid) == ps

\* Store::reset_path: overwrite the head file.
reset_path(ps, topic, path, uuid) ==
    [ps EXCEPT ![topic][path] = uuid]

\* Store::set_current_path: write topics/<topic>/_HEAD.
store_set_current_path(hd, topic, path) ==
    [hd EXCEPT ![topic] = path]

\* Store::get_current_path: NONE when _HEAD is absent.
store_get_current_path(hd, topic) == hd[topic]

\* Store::get_note_metadata: NoMeta when meta/<uuid> is absent.
get_note_metadata(m, uuid) ==
    IF uuid \in Ids THEN m[uuid] ELSE NoMeta

has_metadata(m, uuid) == get_note_metadata(m, uuid) # NoMeta

\* Variant of new_metadata that records the note as its own parent.
new_metadata_self_parent(note_id, parent_id, topic, path) ==
    [parent_id |-> note_id, topic |-> topic, path |-> path]

\* The NoteMetaData value Store::add_note builds.
new_metadata(note_id, parent_id, topic, path) ==
    [parent_id |-> parent_id, topic |-> topic, path |-> path]

\* Variant of write_note_metadata that writes no meta file.
write_note_metadata_lost(m, note_id, md) == m

\* Store::write_note_metadata: write meta/<note_id>.
write_note_metadata(m, note_id, md) ==
    [m EXCEPT ![note_id] = md]

\* Store::update_note_content: copy the draft file to notes/<note_id>;
\* the copy fails when the draft cannot be read.
update_note_content(ns, note_id, file_ok) ==
    IF file_ok THEN ns \cup {note_id} ELSE ns

\* ------------------------------------------------------------ organization
\* Variant of get_current_topic that never loads the _CURRENT file.
get_current_topic_cached(cache, cur) == cache

\* Organization::get_current_topic: the cache, loaded from _CURRENT when empty.
get_current_topic(cache, cur) ==
    IF cache = NONE THEN cur ELSE cache


\* Variant of set_current_topic that does not write the _CURRENT file.
set_current_topic_cache_only(ts, cache, cur, topic) ==
    IF topic_exists(ts, topic)
    THEN [ok |-> TRUE, CURRENT |-> cur, current_topic |-> topic]
    ELSE [ok |-> FALSE, CURRENT |-> cur, current_topic |-> cache]

\* Organization::set_current_topic: <<ok, _CURRENT, cache>>.
set_current_topic(ts, cache, cur, topic) ==
    IF ~topic_exists(ts, topic)
    THEN [ok |-> FALSE, CURRENT |-> cur, current_topic |-> cache]
    ELSE [ok |-> TRUE, CURRENT |-> topic, current_topic |-> topic]

\* Variant of get_current_path for which a topic without _HEAD is an error.
get_current_path_required(ts, hd, topic) ==
    IF topic_exists(ts, topic) /\ store_get_current_path(hd, topic) # NONE
    THEN [ok |-> TRUE, path |-> store_get_current_path(hd, topic)]
    ELSE [ok |-> FALSE, path |-> NONE]

\* Organization::get_current_path: an error when the topic does not exist.
get_current_path(ts, hd, topic) ==
    IF topic_exists(ts, topic)
    THEN [ok |-> TRUE, path |-> store_get_current_path(hd, topic)]
    ELSE [ok |-> FALSE, path |-> NONE]

\* Organization::unwrap_or_default_topic: NONE stands for the error "No topic given."
unwrap_or_default_topic(cache, cur, topic_arg) ==
    IF topic_arg # NONE THEN topic_arg ELSE get_current_topic(cache, cur)

\* The cache after a call that consulted get_current_topic when `used` holds.
cache_after(cache, cur, used) ==
    IF used THEN get_current_topic(cache, cur) ELSE cache

\* ---------------------------------------------------------------- locations
\* A location expression after the match of RELATIVE_LOC or ABSOLUTE_LOC:
\* the captures topic, path, modifier, or the capture subuuid.
\* The first 8 characters of a Uuid; two notes may share them.
short_uuid(id) == (id + 1) \div 2

Shorts == {short_uuid(id) : id \in Ids}

RelLocations ==
    [kind : {"rel"}, topic : TopicNames \cup {NONE},
     path : PathNames \cup {"HEAD"}, modifier : 0..MaxModifier, subuuid : {0}]

AbsLocations ==
    [kind : {"abs"}, topic : {NONE}, path : {NONE}, modifier : {0}, subuuid : Shorts]

Locations == RelLocations \cup AbsLocations

\* location.unwrap_or("HEAD")
HeadLocation ==
    [kind |-> "rel", topic |-> NONE, path |-> "HEAD", modifier |-> 0, subuuid |-> 0]

\* ------------------------------------------------------ location expressions
\* A location expression is a string, here the sequence of its characters.
Digits == {"0", "1", "2", "3", "4", "5", "6", "7", "8", "9"}
\* [[:xdigit:]]
HexChars == Digits \cup {"a", "b", "c", "d", "e", "f", "A", "B", "C", "D", "E", "F"}
\* \w
WordChars ==
    HexChars \cup {"g", "h", "i", "j", "k", "l", "m", "n", "o", "p", "q", "r", "s",
                   "t", "u", "v", "w", "x", "y", "z", "H", "_"}

\* \w+, \d+ and [[:xdigit:]]{n}
is_word(s)   == Len(s) > 0 /\ \A i \in 1..Len(s) : s[i] \in WordChars
is_digits(s) == Len(s) > 0 /\ \A i \in 1..Len(s) : s[i] \in Digits
is_xdigits(s, n) == Len(s) = n /\ \A i \in 1..n : s[i] \in HexChars

\* The position of the first occurrence of the character c in s, 0 when
\* there is none.
first_index(s, c) ==
    IF \E i \in 1..Len(s) : s[i] = c
    THEN CHOOSE i \in 1..Len(s) : s[i] = c /\ \A j \in 1..(i - 1) : s[j] # c
    ELSE 0

\* The text before and after position i of s.
text_before(s, i) == SubSeq(s, 1, i - 1)
text_after(s, i)  == SubSeq(s, i + 1, Len(s))

\* RELATIVE_LOC: ^(?:(?P<topic>\w+)/)?(?P<path>\w+)(?::-(?P<modifier>\d+))?$
\* split into its three groups; none of "/", ":" and "-" is a \w, so the
\* split is the only possible one.  An absent group is the empty text.
relative_groups(expr) ==
    LET slash == first_index(expr, "/")
        rest  == IF slash = 0 THEN expr ELSE text_after(expr, slash)
        colon == first_index(rest, ":")
        tail  == IF colon = 0 THEN <<>> ELSE text_after(rest, colon)
    IN  [has_topic    |-> slash # 0,
         topic        |-> IF slash = 0 THEN <<>> ELSE text_before(expr, slash),
         path         |-> IF colon = 0 THEN rest ELSE text_before(rest, colon),
         has_modifier |-> colon # 0,
         dash         |-> Len(tail) > 0 /\ tail[1] = "-",
         modifier     |-> IF Len(tail) > 0 THEN text_after(tail, 1) ELSE <<>>]

\* Variant of RELATIVE_LOC that accepts any text after the colon.
RELATIVE_LOC_any_modifier(expr) ==
    LET g == relative_groups(expr)
    IN  /\ g.has_topic => is_word(g.topic)
        /\ is_word(g.path)

\* RELATIVE_LOC.is_match(expr)
RELATIVE_LOC(expr) ==
    LET g == relative_groups(expr)
    IN  /\ g.has_topic => is_word(g.topic)
        /\ is_word(g.path)
        /\ g.has_modifier => (g.dash /\ is_digits(g.modifier))

\* Variant of ABSOLUTE_LOC that accepts any text after the first 8
\* hexadecimal digits and a hyphen.
ABSOLUTE_LOC_prefix(expr) ==
    \/ is_xdigits(expr, 8)
    \/ /\ Len(expr) > 8
       /\ is_xdigits(SubSeq(expr, 1, 8), 8)
       /\ expr[9] = "-"

\* ABSOLUTE_LOC.is_match(expr):
\* ^(?P<subuuid>[[:xdigit:]]{8})(?:(?:-[[:xdigit:]]{4}){3}-[[:xdigit:]]{12})?$
ABSOLUTE_LOC(expr) ==
    \/ is_xdigits(expr, 8)
    \/ /\ Len(expr) = 36
       /\ is_xdigits(SubSeq(expr, 1, 8), 8)
       /\ \A k \in 0..2 :
             /\ expr[9 + 5 * k] = "-"
             /\ is_xdigits(SubSeq(expr, 10 + 5 * k, 13 + 5 * k), 4)
       /\ expr[24] = "-"
       /\ is_xdigits(SubSeq(expr, 25, 36), 12)

\* str::parse::<usize> of a text of decimal digits.
digit_value(c) ==
    CHOOSE v \in 0..9 : <<"0", "1", "2", "3", "4", "5", "6", "7", "8", "9">>[v + 1] = c

RECURSIVE parse_usize(_)
parse_usize(s) ==
    IF s = <<>> THEN 0
    ELSE 10 * parse_usize(text_before(s, Len(s))) + digit_value(s[Len(s)])

\* The spelling of the names of the model.  Every other word is the name of
\* no topic and of no path of the store: OtherName.
NameText ==
    [t1 |-> <<"t", "1">>, t2 |-> <<"t", "2">>, main |-> <<"m", "a", "i", "n">>,
     p1 |-> <<"p", "1">>, HEAD |-> <<"H", "E", "A", "D">>]
OtherName == "other"

name_of(word) ==
    IF \E n \in DOMAIN NameText : NameText[n] = word
    THEN CHOOSE n \in DOMAIN NameText : NameText[n] = word
    ELSE OtherName

\* Uuid::to_string: the canonical text of an identifier, 36 characters of
\* which the first 8 are the short id.  Identifiers 2k-1 and 2k share them.
HexDigit == <<"1", "2", "3", "4", "5", "6", "7", "8", "9", "a", "b", "c", "d", "e", "f">>

short_text(short) == <<"4", "4", "a", "0", "f", "4", "5">> \o <<HexDigit[short]>>

uuid_text(id) ==
    short_text(short_uuid(id))
        \o <<"-", "2", "2", "b", "6", "-", "4", "6", "7", "5", "-", "a", "2", "7", "7", "-">>
        \o <<"e", "1", "9", "6", "d", "8", "8", "8", "1", "c", "a">> \o <<HexDigit[id]>>

\* The short id a text of 8 hexadecimal digits spells, 0 when no identifier
\* the model mints starts with them.
subuuid_of(text) ==
    IF \E short \in Shorts : short_text(short) = text
    THEN CHOOSE short \in Shorts : short_text(short) = text
    ELSE 0

\* Organization::solve_location, lines 141-149: the expression is tried
\* against RELATIVE_LOC first and ABSOLUTE_LOC second; the result is the
\* captures of the pattern that matched.
captures(expr) ==
    IF RELATIVE_LOC(expr)
    THEN LET g == relative_groups(expr)
         IN  [kind |-> "rel",
              topic |-> IF g.has_topic THEN name_of(g.topic) ELSE NONE,
              path |-> name_of(g.path),
              modifier |-> IF g.has_modifier THEN parse_usize(g.modifier) ELSE 0,
              subuuid |-> 0]
    ELSE IF ABSOLUTE_LOC(expr)
    THEN [kind |-> "abs", topic |-> NONE, path |-> NONE, modifier |-> 0,
          subuuid |-> subuuid_of(SubSeq(expr, 1, 8))]
    ELSE [kind |-> "invalid", topic |-> NONE, path |-> NONE, modifier |-> 0,
          subuuid |-> 0]

\* The text of a relative location.
relative_text(loc) ==
    (IF loc.topic = NONE THEN <<>> ELSE NameText[loc.topic] \o <<"/">>)
        \o NameText[loc.path]
        \o (IF loc.modifier = 0 THEN <<>> ELSE <<":", "-", HexDigit[loc.modifier]>>)

\* Expressions of 13 characters: hexadecimal digits alone, and the start of
\* an identifier cut after its second group.
ThirteenHex == short_text(1) \o <<"2", "2", "b", "6", "4">>
PartialUuid == SubSeq(uuid_text(1), 1, 13)

\* The expressions the commands are called with.
Exprs ==
    {relative_text(loc) : loc \in RelLocations}
        \cup {uuid_text(id) : id \in Ids}
        \cup {short_text(short) : short \in Shorts}
        \cup {NameText["main"] \o <<":", "-", "0">>,
              NameText["main"] \o <<":", "-">>,
              ThirteenHex, PartialUuid, <<>>,
              NameText["t1"] \o <<":">> \o NameText["p1"],
              NameText["main"] \o <<":", "+", "1">>,
              NameText["t1"] \o <<"/">> \o NameText["t2"] \o <<"/">> \o NameText["p1"]}

\* The captures of the expressions.
ExprLocations == {captures(expr) : expr \in Exprs}

\* Variant of walk_history that follows parent_id once, whatever the modifier.
walk_history_once(m, id, modifier) ==
    IF modifier > 0 /\ id # NoId
    THEN (IF has_metadata(m, m[id].parent_id) THEN m[id].parent_id ELSE NoId)
    ELSE id

\* The loop of solve_relative: follow parent_id `modifier` times, stopping
\* when there is no note left.
RECURSIVE walk_history(_, _, _)
walk_history(m, id, modifier) ==
    IF modifier > 0 /\ id # NoId
    THEN LET parent == m[id].parent_id
         IN walk_history(m,
                IF parent # NoId /\ has_metadata(m, parent) THEN parent ELSE NoId,
                modifier - 1)
    ELSE id

\* Organization::solve_relative: [err, id], id = NoId for "no note".
\* `topic` is the topic the location was resolved in.
solve_relative(ts, cache, cur, hd, ps, m, loc) ==
    LET topic == IF loc.topic = NONE THEN get_current_topic(cache, cur) ELSE loc.topic
        cp    == get_current_path(ts, hd, topic)
        path  == IF loc.path = "HEAD"
                 THEN (IF cp.path = NONE THEN "main" ELSE cp.path)
                 ELSE loc.path
        uuid  == get_path(ps, topic, path)
        start == IF uuid # NoId /\ has_metadata(m, uuid) THEN uuid ELSE NoId
    IN  IF topic = NONE THEN [err |-> TRUE, id |-> NoId, topic |-> NONE, path |-> NONE]
        ELSE IF loc.path = "HEAD" /\ ~cp.ok
             THEN [err |-> TRUE, id |-> NoId, topic |-> topic, path |-> NONE]
        ELSE [err |-> FALSE, id |-> walk_history(m, start, loc.modifier),
              topic |-> topic, path |-> path]

\* Store::search_short_uuid: the first entry of meta/ whose name starts with
\* the short id, in directory order, which is any order: every match is a
\* possible result.
search_short_uuid(m, short) ==
    LET found == {id \in Ids : has_metadata(m, id) /\ short_uuid(id) = short}
    IN  IF found = {} THEN {NoId} ELSE found

\* Organization::solve_absolute
solve_absolute(m, loc) ==
    {[err |-> FALSE, id |-> id, topic |-> NONE, path |-> NONE] :
        id \in search_short_uuid(m, loc.subuuid)}

\* Organization::solve_location: the set of results the call may return.
solve_location(ts, cache, cur, hd, ps, m, loc) ==
    IF loc.kind = "rel"
    THEN {solve_relative(ts, cache, cur, hd, ps, m, loc)}
    ELSE IF loc.kind = "abs"
    THEN solve_absolute(m, loc)
    ELSE {[err |-> TRUE, id |-> NoId, topic |-> NONE, path |-> NONE]}

\* solve_location consults get_current_topic exactly when a relative
\* location names no topic.
location_uses_current_topic(loc) == loc.kind = "rel" /\ loc.topic = NONE


\* ------------------------------------------------------------------- Init
\* No Store::add_note is under way.
NoInflight == [pc |-> "idle", topic |-> NONE, path |-> NONE, note_id |-> NoId,
               parent_id |-> NoId, file_ok |-> TRUE]

\* The index Store::init writes: no keyword.
EmptyIndex == [k \in Keywords |-> <<>>]

\* Before Store::init: the location holds nothing, or something that is no
\* repository; no file of the store exists.
Init ==
    /\ base_dir \in {"absent", "other"}
    /\ topics = {}
    /\ CURRENT = NONE
    /\ current_topic = NONE
    /\ paths = [t \in TopicNames |-> [p \in PathNames |-> NoId]]
    /\ HEAD = [t \in TopicNames |-> NONE]
    /\ meta = [id \in Ids |-> NoMeta]
    /\ notes = {}
    /\ next_id = 1
    /\ inflight = NoInflight
    /\ references = [id \in Ids |-> <<>>]
    /\ index = EmptyIndex
    /\ racer = NoInflight

Idle == inflight.pc = "idle"

\* Store::attach: the location holds the directories and the index file of a
\* repository.
Attached == base_dir = "repository"

\* Variant of init_ok that accepts a location where something exists.
init_ok_any(dir) == TRUE

\* Store::init, lines 73-76: an error when something exists at the location.
init_ok(dir) == dir = "absent"

\* Store::init called in the current state: whether it returns Ok and the
\* files it leaves: the directories meta, notes and topics, all empty, and
\* an index without keyword.
init_effect ==
    IF init_ok(base_dir)
    THEN [ok |-> TRUE, base_dir |-> "repository", topics |-> {}, CURRENT |-> NONE,
          paths |-> [t \in TopicNames |-> [p \in PathNames |-> NoId]],
          HEAD |-> [t \in TopicNames |-> NONE],
          meta |-> [id \in Ids |-> NoMeta], notes |-> {},
          references |-> [id \in Ids |-> <<>>], index |-> EmptyIndex]
    ELSE [ok |-> FALSE, base_dir |-> base_dir, topics |-> topics, CURRENT |-> CURRENT,
          paths |-> paths, HEAD |-> HEAD, meta |-> meta, notes |-> notes,
          references |-> references, index |-> index]

\* ---------------------------------------------------------------- actions
\* Store::init (main.rs, command init)
StoreInit ==
    /\ Idle
    /\ LET e == init_effect
       IN  /\ base_dir' = e.base_dir
           /\ topics' = e.topics
           /\ CURRENT' = e.CURRENT
           /\ paths' = e.paths
           /\ HEAD' = e.HEAD
           /\ meta' = e.meta
           /\ notes' = e.notes
           /\ references' = e.references
           /\ index' = e.index
    /\ UNCHANGED <<current_topic, next_id, inflight, racer>>

\* main.rs: every command attaches a new Organization to the store; its
\* cache starts empty.
Attach ==
    /\ Idle
    /\ Attached
    /\ current_topic # NONE
    /\ current_topic' = NONE
    /\ UNCHANGED <<store_vars, inflight, racer>>

\* Variant of create_topic_ok that never finds the topic in the store.
create_topic_ok_always(ts, topic) == TRUE

\* Organization::create_topic: Ok exactly when the topic is new.
create_topic_ok(ts, topic) == ~topic_exists(ts, topic)

\* Organization::create_topic called in the current state: whether it
\* returns Ok and the files and the cache it leaves.  The new topic becomes
\* the current one when get_current_topic finds none.
create_topic_effect(topic) ==
    LET created == topics \cup {topic}
        current == get_current_topic(current_topic, CURRENT)
        r       == set_current_topic(created, current_topic, CURRENT, topic)
    IN  IF ~create_topic_ok(topics, topic)
        THEN [ok |-> FALSE, topics |-> topics, CURRENT |-> CURRENT,
              current_topic |-> current_topic, paths |-> paths, HEAD |-> HEAD]
        ELSE IF current = NONE
        THEN [ok |-> TRUE, topics |-> created, CURRENT |-> r.CURRENT,
              current_topic |-> r.current_topic, paths |-> paths, HEAD |-> HEAD]
        ELSE [ok |-> TRUE, topics |-> created, CURRENT |-> CURRENT,
              current_topic |-> current, paths |-> paths, HEAD |-> HEAD]

CreateTopic(topic) ==
    /\ Idle
    /\ Attached
    /\ LET e == create_topic_effect(topic)
       IN  /\ topics' = e.topics
           /\ CURRENT' = e.CURRENT
           /\ current_topic' = e.current_topic
           /\ paths' = e.paths
           /\ HEAD' = e.HEAD
    /\ UNCHANGED <<meta, notes, next_id, inflight, references, index, base_dir, racer>>

\* Organization::set_current_topic
SetCurrentTopic(topic) ==
    /\ Idle
    /\ Attached
    /\ LET r == set_current_topic(topics, current_topic, CURRENT, topic)
       IN  /\ CURRENT' = r.CURRENT
           /\ current_topic' = r.current_topic
    /\ UNCHANGED <<topics, paths, HEAD, meta, notes, next_id, inflight, references, index, base_dir, racer>>

\* Variant of set_current_path_ok that does not look for the path.
set_current_path_ok_any_path(cache, cur, ps, topic_arg, path) ==
    unwrap_or_default_topic(cache, cur, topic_arg) \in TopicNames

\* Organization::set_current_path: Ok exactly when the path exists in the topic.
set_current_path_ok(cache, cur, ps, topic_arg, path) ==
    LET topic == unwrap_or_default_topic(cache, cur, topic_arg)
    IN  topic # NONE /\ path_exists(ps, topic, path)

\* Organization::set_current_path called in the current state: what it
\* returns (Ok, the Default error "No topic given." of
\* unwrap_or_default_topic, or PathDoesNotExist) and the _HEAD files and
\* the cache it leaves.
set_current_path_effect(topic_arg, path) ==
    LET topic == unwrap_or_default_topic(current_topic, CURRENT, topic_arg)
        ok    == set_current_path_ok(current_topic, CURRENT, paths, topic_arg, path)
    IN  [ok |-> ok,
         error |-> IF ok THEN "none"
                   ELSE IF topic = NONE THEN "Default" ELSE "PathDoesNotExist",
         topic |-> topic,
         HEAD |-> IF ok THEN store_set_current_path(HEAD, topic, path) ELSE HEAD,
         current_topic |-> cache_after(current_topic, CURRENT, topic_arg = NONE)]

SetCurrentPath(topic_arg, path) ==
    /\ Idle
    /\ Attached
    /\ LET e == set_current_path_effect(topic_arg, path)
       IN  /\ HEAD' = e.HEAD
           /\ current_topic' = e.current_topic
    /\ UNCHANGED <<topics, CURRENT, paths, meta, notes, next_id, inflight, references, index, base_dir, racer>>

\* location.unwrap_or("HEAD")
location_or_head(has_location, loc_arg) ==
    IF has_location THEN loc_arg ELSE HeadLocation

\* Organization::create_path, line 88: the new path is written in the topic
\* recorded in the metadata of the note the location resolves to.
create_path_topic(m, id) == get_note_metadata(m, id).topic

\* Variant of resolved that takes "no note" for a note.
resolved_no_error(r) == ~r.err

\* Organization::create_path, lines 86-87: Ok exactly when the location
\* resolves to a note.
resolved(r) == ~r.err /\ r.id # NoId

\* Organization::create_path called in the current state, when
\* solve_location returns r: whether it returns Ok, the path it writes and
\* the files and the cache it leaves.
create_path_effect(new_path, has_location, loc_arg, r) ==
    LET loc == location_or_head(has_location, loc_arg)
    IN  [ok |-> resolved(r),
         topic |-> IF resolved(r) THEN create_path_topic(meta, r.id) ELSE NONE,
         paths |-> IF resolved(r)
                   THEN write_path(paths, create_path_topic(meta, r.id), new_path, r.id)
                   ELSE paths,
         current_topic |-> cache_after(current_topic, CURRENT,
                                       location_uses_current_topic(loc)),
         meta |-> meta, notes |-> notes, next_id |-> next_id]

CreatePath(new_path, has_location, loc_arg) ==
    /\ Idle
    /\ Attached
    /\ \E r \in solve_location(topics, current_topic, CURRENT, HEAD, paths, meta,
                               location_or_head(has_location, loc_arg)) :
         LET e == create_path_effect(new_path, has_location, loc_arg, r)
         IN  /\ paths' = e.paths
             /\ current_topic' = e.current_topic
             /\ meta' = e.meta
             /\ notes' = e.notes
             /\ next_id' = e.next_id
    /\ UNCHANGED <<topics, CURRENT, HEAD, inflight, references, index, base_dir, racer>>

\* Variant of DefaultPath with another default name.
DefaultPathOther == "p1"

\* Organization::add_note, line 127: the path a topic without current path gets.
DefaultPath == "main"

\* Variant of branch_path that creates the new path empty.
branch_path_empty(ps, topic, new_path, curr) == ps

\* Organization::add_note, lines 117-118: a new path branches from the
\* current path of the topic by copying its head.
branch_path(ps, topic, new_path, curr) ==
    write_path(ps, topic, new_path, get_path(ps, topic, curr))

\* Organization::add_note, lines 101-130: the topic and the path the note
\* goes to, and the writes made on the way.  ok = FALSE is an early return.
add_note_resolve(ts, cache, cur, hd, ps, topic_arg, path_arg) ==
    LET sct   == set_current_topic(ts, cache, cur, topic_arg)
        fail1 == IF topic_arg # NONE THEN ~sct.ok
                 ELSE get_current_topic(cache, cur) = NONE
        cur1  == IF topic_arg # NONE THEN sct.CURRENT ELSE cur
        topic == IF topic_arg # NONE THEN sct.current_topic
                 ELSE get_current_topic(cache, cur)
        cp    == get_current_path(ts, hd, topic)
        curr  == cp.path
        exist == path_exists(ps, topic, path_arg)
        fail2 == path_arg # NONE /\ ~exist /\ curr # NONE /\ ~path_exists(ps, topic, curr)
        ps1   == IF path_arg # NONE /\ ~exist /\ curr # NONE
                 THEN branch_path(ps, topic, path_arg, curr)
                 ELSE ps
        hd1   == IF path_arg # NONE THEN store_set_current_path(hd, topic, path_arg)
                 ELSE IF curr = NONE THEN store_set_current_path(hd, topic, DefaultPath)
                 ELSE hd
    IN  IF fail1
        THEN [ok |-> FALSE, CURRENT |-> cur, current_topic |-> cache, HEAD |-> hd,
              paths |-> ps, topic |-> NONE, path |-> NONE]
        ELSE IF fail2 \/ ~cp.ok
        THEN [ok |-> FALSE, CURRENT |-> cur1, current_topic |-> topic, HEAD |-> hd,
              paths |-> ps, topic |-> topic, path |-> NONE]
        ELSE [ok |-> TRUE, CURRENT |-> cur1, current_topic |-> topic, HEAD |-> hd1,
              paths |-> ps1, topic |-> topic,
              path |-> store_get_current_path(hd1, topic)]

\* Variant of store_parent_id that never reads the head of the path.
store_parent_id_none(ps, topic, path) == NoId

\* Store::add_note, line 244: the parent of the new note is the head of the path.
store_parent_id(ps, topic, path) == get_path(ps, topic, path)

\* Variant of store_advance_head that leaves the path file as it is.
store_advance_head_skipped(ps, topic, path, note_id) == ps

\* Store::add_note, line 252: the head of the path becomes the new note.
store_advance_head(ps, topic, path, note_id) == write_path(ps, topic, path, note_id)

\* Store::add_note run to its end: the files after the call, whether it
\* returned Ok, and the metadata it returned.
store_add_note(ps, m, ns, note_id, topic, path, file_ok) ==
    LET parent_id == store_parent_id(ps, topic, path)
        metadata  == new_metadata(note_id, parent_id, topic, path)
    IN  [ok |-> file_ok,
         paths |-> store_advance_head(ps, topic, path, note_id),
         meta |-> write_note_metadata(m, note_id, metadata),
         notes |-> update_note_content(ns, note_id, file_ok),
         note_id |-> note_id,
         parent_id |-> metadata.parent_id]

\* Organization::add_note called in the current state: what it returns (on
\* Ok, the report {note_id, parent_id, topic, path} of line 133) and the
\* files and the cache it leaves.  stored tells that Store::add_note was
\* reached.
add_note_effect(file_ok, topic_arg, path_arg) ==
    LET r == add_note_resolve(topics, current_topic, CURRENT, HEAD, paths,
                              topic_arg, path_arg)
        a == store_add_note(r.paths, meta, notes, next_id, r.topic, r.path, file_ok)
    IN  IF r.ok
        THEN [ok |-> a.ok, stored |-> TRUE, note_id |-> a.note_id,
              parent_id |-> a.parent_id, topic |-> r.topic, path |-> r.path,
              CURRENT |-> r.CURRENT, current_topic |-> r.current_topic,
              HEAD |-> r.HEAD, paths |-> a.paths, meta |-> a.meta,
              notes |-> a.notes, next_id |-> next_id + 1]
        ELSE [ok |-> FALSE, stored |-> FALSE, note_id |-> NoId, parent_id |-> NoId,
              topic |-> r.topic, path |-> NONE,
              CURRENT |-> r.CURRENT, current_topic |-> r.current_topic,
              HEAD |-> r.HEAD, paths |-> r.paths, meta |-> meta,
              notes |-> notes, next_id |-> next_id]

\* Organization::add_note, with Store::add_note run to its end.
AddNote(file_ok, topic_arg, path_arg) ==
    /\ Idle
    /\ Attached
    /\ LET e == add_note_effect(file_ok, topic_arg, path_arg)
       IN  /\ e.stored => next_id <= MaxNotes
           /\ CURRENT' = e.CURRENT
           /\ current_topic' = e.current_topic
           /\ HEAD' = e.HEAD
           /\ paths' = e.paths
           /\ meta' = e.meta
           /\ notes' = e.notes
           /\ next_id' = e.next_id
    /\ UNCHANGED <<topics, inflight, references, index, base_dir, racer>>

\* Organization::remove_path (called by main.rs:245): the topic defaults to
\* the current one and the path must exist.
remove_path_ok(cache, cur, ps, path, topic_arg) ==
    LET topic == unwrap_or_default_topic(cache, cur, topic_arg)
    IN  topic # NONE /\ path_exists(ps, topic, path)

\* Organization::remove_path called in the current state: whether it
\* returns Ok and the files and the cache it leaves.  Only the head file of
\* the path is deleted.
remove_path_effect(path, topic_arg) ==
    LET topic == unwrap_or_default_topic(current_topic, CURRENT, topic_arg)
        ok    == remove_path_ok(current_topic, CURRENT, paths, path, topic_arg)
    IN  [ok |-> ok,
         topic |-> topic,
         paths |-> IF ok THEN remove_path(paths, topic, path) ELSE paths,
         current_topic |-> cache_after(current_topic, CURRENT, topic_arg = NONE),
         meta |-> meta, notes |-> notes]

RemovePath(path, topic_arg) ==
    /\ Idle
    /\ Attached
    /\ LET e == remove_path_effect(path, topic_arg)
       IN  /\ paths' = e.paths
           /\ current_topic' = e.current_topic
           /\ meta' = e.meta
           /\ notes' = e.notes
    /\ UNCHANGED <<topics, CURRENT, HEAD, next_id, inflight, references, index, base_dir, racer>>

\* Organization::reset_path (called by main.rs:264): the location must
\* resolve to a note and the path must exist.
reset_path_ok(cache, cur, ps, path, topic_arg, r) ==
    LET topic == unwrap_or_default_topic(cache, cur, topic_arg)
    IN  resolved(r) /\ topic # NONE /\ path_exists(ps, topic, path)

\* Organization::reset_path called in the current state, when solve_location
\* returns r: the head of the path becomes the note the location resolves to.
reset_path_effect(path, topic_arg, loc, r) ==
    LET topic == unwrap_or_default_topic(current_topic, CURRENT, topic_arg)
        ok    == reset_path_ok(current_topic, CURRENT, paths, path, topic_arg, r)
    IN  [ok |-> ok,
         topic |-> topic,
         paths |-> IF ok THEN reset_path(paths, topic, path, r.id) ELSE paths,
         current_topic |-> cache_after(current_topic, CURRENT,
                               topic_arg = NONE \/ location_uses_current_topic(loc)),
         meta |-> meta, notes |-> notes]

ResetPath(path, topic_arg, loc) ==
    /\ Idle
    /\ Attached
    /\ \E r \in solve_location(topics, current_topic, CURRENT, HEAD, paths, meta, loc) :
         LET e == reset_path_effect(path, topic_arg, loc, r)
         IN  /\ paths' = e.paths
             /\ current_topic' = e.current_topic
             /\ meta' = e.meta
             /\ notes' = e.notes
    /\ UNCHANGED <<topics, CURRENT, HEAD, next_id, inflight, references, index, base_dir, racer>>

\* Variant of solve_head that records the default path of a topic without
\* current path as its current path.
solve_head_defaulted(hd, topic, loc) ==
    IF /\ loc.kind = "rel"
       /\ loc.path = "HEAD"
       /\ topic \in TopicNames
       /\ store_get_current_path(hd, topic) = NONE
    THEN store_set_current_path(hd, topic, DefaultPath)
    ELSE hd

\* Organization::solve_relative, line 173: for HEAD in a topic without
\* current path, unwrap_or("main") names the path and writes no _HEAD.
solve_head(hd, topic, loc) == hd

\* Organization::solve_location called in the current state (the command
\* note show, main.rs:306), when it returns r: the result, the files and the
\* cache, which get_current_topic loads for a location without topic.
solve_location_effect(loc, r) ==
    [result |-> r,
     current_topic |-> cache_after(current_topic, CURRENT,
                                   location_uses_current_topic(loc)),
     topics |-> topics, CURRENT |-> CURRENT,
     HEAD |-> solve_head(HEAD, r.topic, loc),
     paths |-> paths, meta |-> meta, notes |-> notes,
     references |-> references, index |-> index]

SolveLocation(loc) ==
    /\ Idle
    /\ Attached
    /\ \E r \in solve_location(topics, current_topic, CURRENT, HEAD, paths, meta, loc) :
         LET e == solve_location_effect(loc, r)
         IN  /\ current_topic' = e.current_topic
             /\ topics' = e.topics
             /\ CURRENT' = e.CURRENT
             /\ HEAD' = e.HEAD
             /\ paths' = e.paths
             /\ meta' = e.meta
             /\ notes' = e.notes
             /\ references' = e.references
             /\ index' = e.index
    /\ UNCHANGED <<next_id, inflight, base_dir, racer>>

\* ------------------------------------------- Store::add_note, write by write
\* Organization::add_note up to Store::add_note line 251: the topic and the
\* path are resolved, the identifier is minted and the parent is read.
BeginAddNote(file_ok, topic_arg, path_arg) ==
    /\ Idle
    /\ Attached
    /\ next_id <= MaxNotes
    /\ LET r == add_note_resolve(topics, current_topic, CURRENT, HEAD, paths,
                                 topic_arg, path_arg)
       IN  /\ r.ok
           /\ CURRENT' = r.CURRENT
           /\ current_topic' = r.current_topic
           /\ HEAD' = r.HEAD
           /\ paths' = r.paths
           /\ next_id' = next_id + 1
           /\ inflight' = [pc |-> "write_path", topic |-> r.topic, path |-> r.path,
                           note_id |-> next_id,
                           parent_id |-> store_parent_id(r.paths, r.topic, r.path),
                           file_ok |-> file_ok]
    /\ UNCHANGED <<topics, meta, notes, references, index, base_dir, racer>>

\* Store::add_note, line 252
StepWritePath ==
    /\ inflight.pc = "write_path"
    /\ paths' = store_advance_head(paths, inflight.topic, inflight.path, inflight.note_id)
    /\ inflight' = [inflight EXCEPT !.pc = "write_note_metadata"]
    /\ UNCHANGED <<topics, CURRENT, current_topic, HEAD, meta, notes, next_id, references, index, base_dir, racer>>

\* Store::add_note, line 253
StepWriteNoteMetadata ==
    /\ inflight.pc = "write_note_metadata"
    /\ meta' = write_note_metadata(meta, inflight.note_id,
                   new_metadata(inflight.note_id, inflight.parent_id,
                                inflight.topic, inflight.path))
    /\ inflight' = [inflight EXCEPT !.pc = "update_note_content"]
    /\ UNCHANGED <<topics, CURRENT, current_topic, paths, HEAD, notes, next_id, references, index, base_dir, racer>>

\* Store::add_note, line 254, and the return
StepUpdateNoteContent ==
    /\ inflight.pc = "update_note_content"
    /\ notes' = update_note_content(notes, inflight.note_id, inflight.file_ok)
    /\ inflight' = NoInflight
    /\ UNCHANGED <<topics, CURRENT, current_topic, paths, HEAD, meta, next_id, references, index, base_dir, racer>>

\* ------------------------------- Store::add_note of a second process
\* A second process runs Organization::add_note on the same store, with a
\* cache of its own, empty at its start; there is no lock on the store.
\* Up to Store::add_note line 251: the topic and the path are resolved, the
\* identifier is minted and the parent is read.
RacerBegin(file_ok, topic_arg, path_arg) ==
    /\ racer.pc = "idle"
    /\ Attached
    /\ next_id <= MaxNotes
    /\ LET r == add_note_resolve(topics, NONE, CURRENT, HEAD, paths, topic_arg, path_arg)
       IN  /\ r.ok
           /\ CURRENT' = r.CURRENT
           /\ HEAD' = r.HEAD
           /\ paths' = r.paths
           /\ next_id' = next_id + 1
           /\ racer' = [pc |-> "write_path", topic |-> r.topic, path |-> r.path,
                        note_id |-> next_id,
                        parent_id |-> store_parent_id(r.paths, r.topic, r.path),
                        file_ok |-> file_ok]
    /\ UNCHANGED <<topics, current_topic, meta, notes, inflight, references, index,
                   base_dir>>

\* Store::add_note, line 252, in the second process
RacerWritePath ==
    /\ racer.pc = "write_path"
    /\ paths' = store_advance_head(paths, racer.topic, racer.path, racer.note_id)
    /\ racer' = [racer EXCEPT !.pc = "write_note_metadata"]
    /\ UNCHANGED <<topics, CURRENT, current_topic, HEAD, meta, notes, next_id, inflight,
                   references, index, base_dir>>

\* Store::add_note, line 253, in the second process
RacerWriteNoteMetadata ==
    /\ racer.pc = "write_note_metadata"
    /\ meta' = write_note_metadata(meta, racer.note_id,
                   new_metadata(racer.note_id, racer.parent_id, racer.topic, racer.path))
    /\ racer' = [racer EXCEPT !.pc = "update_note_content"]
    /\ UNCHANGED <<topics, CURRENT, current_topic, paths, HEAD, notes, next_id, inflight,
                   references, index, base_dir>>

\* Store::add_note, line 254, and the return, in the second process
RacerUpdateNoteContent ==
    /\ racer.pc = "update_note_content"
    /\ notes' = update_note_content(notes, racer.note_id, racer.file_ok)
    /\ racer' = NoInflight
    /\ UNCHANGED <<topics, CURRENT, current_topic, paths, HEAD, meta, next_id, inflight,
                   references, index, base_dir>>

\* The process dies between two writes of Store::add_note, or after a
\* panic; the files stay as they are and the next command starts with an
\* empty cache.
Crash ==
    /\ ~Idle
    /\ inflight' = NoInflight
    /\ current_topic' = NONE
    /\ UNCHANGED <<store_vars, racer>>

\* ------------------------------------------------- I/O errors of the store
\* Organization::manage_store_error: the message is printed and the process
\* panics.
manage_store_error == [NoInflight EXCEPT !.pc = "panic"]

\* Organization::create_topic when Store::create_topic returns an I/O error
\* (line 49-50): the topic directory is not made.
CreateTopicIoError(topic) ==
    /\ Idle
    /\ Attached
    /\ ~topic_exists(topics, topic)
    /\ inflight' = manage_store_error
    /\ UNCHANGED <<current_topic, store_vars, racer>>

\* Organization::set_current_topic when Store::set_current_topic returns an
\* I/O error (line 38-39): _CURRENT is not written.
SetCurrentTopicIoError(topic) ==
    /\ Idle
    /\ Attached
    /\ topic_exists(topics, topic)
    /\ inflight' = manage_store_error
    /\ UNCHANGED <<current_topic, store_vars, racer>>

\* Organization::get_current_topic when the cache is empty and
\* Store::get_current_topic returns an I/O error (line 22-24): _CURRENT is
\* there and cannot be read.
GetCurrentTopicIoError ==
    /\ Idle
    /\ Attached
    /\ current_topic = NONE
    /\ CURRENT # NONE
    /\ inflight' = manage_store_error
    /\ UNCHANGED <<current_topic, store_vars, racer>>

\* -------------------------------------------------------------- the index
\* Variant of add_keyword_index that lists an identifier once per keyword.
add_keyword_index_dedup(idx, keyword, note_id) ==
    IF \E i \in 1..Len(idx[keyword]) : idx[keyword][i] = note_id
    THEN idx
    ELSE [idx EXCEPT ![keyword] = Append(@, note_id)]

\* Store::add_keyword_index: the identifier is pushed at the end of the
\* list of the keyword, a list of one identifier when the keyword is new,
\* and the whole index is written back.  The list of an absent keyword is
\* the empty list: no list of a present keyword is empty.
add_keyword_index(idx, keyword, note_id) ==
    [idx EXCEPT ![keyword] = Append(@, note_id)]

\* Variant of get_meta_from_index that stops after the first identifier.
get_meta_from_index_first(idx, m, keyword) ==
    LET found == SelectSeq(idx[keyword], LAMBDA id : has_metadata(m, id))
    IN  IF found = <<>> THEN <<>> ELSE <<Head(found)>>

\* Store::get_meta_from_index: the identifiers listed under the keyword, in
\* the order of the list, without those that have no metadata file; the
\* metadata returned for an identifier id is m[id].
get_meta_from_index(idx, m, keyword) ==
    SelectSeq(idx[keyword], LAMBDA id : has_metadata(m, id))

\* Store::get_keywords: one pair (keyword, length of its list) per keyword
\* of the index.
get_keywords(idx) ==
    {<<k, Len(idx[k])>> : k \in {k2 \in Keywords : idx[k2] # <<>>}}

\* Store::add_keyword_index called with the metadata of a stored note.
AddKeywordIndex(keyword, note_id) ==
    /\ Idle
    /\ Attached
    /\ has_metadata(meta, note_id)
    /\ Len(index[keyword]) < MaxEntries
    /\ index' = add_keyword_index(index, keyword, note_id)
    /\ UNCHANGED <<topics, CURRENT, current_topic, paths, HEAD, meta, notes, next_id,
                   inflight, references, base_dir, racer>>

\* ---------------------------------------------------------- the references
\* Variant of append_reference that puts the new reference first.
append_reference_front(refs, from_id, to_id) ==
    [refs EXCEPT ![from_id] = <<to_id>> \o @]

\* Organization::add_note_reference (called by main.rs:325): the identifier
\* of the target is pushed at the end of the references of the source.
append_reference(refs, from_id, to_id) ==
    [refs EXCEPT ![from_id] = Append(@, to_id)]

\* Organization::add_note_reference: both locations are resolved to a note,
\* and the metadata of the source is written back with one more reference.
\* found tells that both resolved to a note.
add_note_reference_effect(from, to) ==
    LET found == ~from.err /\ from.id # NoId /\ ~to.err /\ to.id # NoId
    IN  IF found
        THEN [ok |-> TRUE,
              meta |-> write_note_metadata(meta, from.id, get_note_metadata(meta, from.id)),
              references |-> append_reference(references, from.id, to.id)]
        ELSE [ok |-> FALSE, meta |-> meta, references |-> references]

AddNoteReference(from_loc, to_loc) ==
    /\ Idle
    /\ Attached
    /\ \E from \in solve_location(topics, current_topic, CURRENT, HEAD, paths, meta, from_loc),
          to \in solve_location(topics, current_topic, CURRENT, HEAD, paths, meta, to_loc) :
         LET e == add_note_reference_effect(from, to)
         IN  /\ e.ok => Len(references[from.id]) < MaxReferences
             /\ meta' = e.meta
             /\ references' = e.references
    /\ current_topic' = cache_after(current_topic, CURRENT,
                                    location_uses_current_topic(from_loc)
                                        \/ location_uses_current_topic(to_loc))
    /\ UNCHANGED <<topics, CURRENT, paths, HEAD, notes, next_id, inflight, index, base_dir, racer>>

\* ------------------------------------------------------ the metadata files
\* The line feed and the carriage return.
LF == "\n"
CR == "\r"

\* The text of a sequence of references as NoteMetaData::serialize builds it
\* (lines 48-52): a line feed before each identifier.
RECURSIVE references_text(_)
references_text(refs) ==
    IF refs = <<>> THEN <<>>
    ELSE <<LF>> \o uuid_text(Head(refs)) \o references_text(Tail(refs))

\* NoteMetaData::serialize: the parent or nothing, the topic, the path and
\* the references, separated by line feeds.  topic and path are texts.
serialize(md) ==
    (IF md.parent_id = NoId THEN <<>> ELSE uuid_text(md.parent_id))
        \o <<LF>> \o md.topic \o <<LF>> \o md.path \o references_text(md.references)

\* str::lines: the text is cut at each line feed, a carriage return that
\* ends a line is dropped with it, and an empty last line is no line.
RECURSIVE lines(_)
lines(content) ==
    IF content = <<>> THEN <<>>
    ELSE LET lf   == first_index(content, LF)
             line == IF lf = 0 THEN content ELSE text_before(content, lf)
             rest == IF lf = 0 THEN <<>> ELSE text_after(content, lf)
             bare == IF Len(line) > 0 /\ line[Len(line)] = CR /\ lf # 0
                     THEN text_before(line, Len(line))
                     ELSE line
         IN  <<bare>> \o lines(rest)

\* Uuid::parse_str on a line of a metadata file: the identifier the text
\* spells, NoId when it spells none (an Err).
parse_uuid(text) ==
    IF \E id \in Ids : uuid_text(id) = text
    THEN CHOOSE id \in Ids : uuid_text(id) = text
    ELSE NoId

\* What parse_meta_file returns on an error.
ParserError == [err |-> TRUE, parent_id |-> NoId, topic |-> <<>>, path |-> <<>>,
                references |-> <<>>]

\* NoteMetaData::parse_meta_file: line 1 is the parent or empty, line 2 the
\* topic, line 3 the path, both not empty, and every other line is an
\* identifier.
parse_meta_file(content) ==
    LET ls   == lines(content)
        refs == [i \in 1..(Len(ls) - 3) |-> parse_uuid(ls[i + 3])]
    IN  IF Len(ls) < 1 THEN ParserError
        ELSE IF ls[1] # <<>> /\ parse_uuid(ls[1]) = NoId THEN ParserError
        ELSE IF Len(ls) < 2 \/ ls[2] = <<>> THEN ParserError
        ELSE IF Len(ls) < 3 \/ ls[3] = <<>> THEN ParserError
        ELSE IF \E i \in 1..Len(refs) : refs[i] = NoId THEN ParserError
        ELSE [err |-> FALSE,
              parent_id |-> IF ls[1] = <<>> THEN NoId ELSE parse_uuid(ls[1]),
              topic |-> ls[2], path |-> ls[3], references |-> refs]

\* ------------------------------------------------------------ specification
TopicArgs == TopicNames \cup {NONE}
PathArgs  == PathNames \cup {NONE}

Next ==
    \/ StoreInit
    \/ Attach
    \/ \E topic \in TopicNames : CreateTopic(topic)
    \/ \E topic \in TopicNames : SetCurrentTopic(topic)
    \/ \E topic_arg \in TopicArgs, path \in PathNames : SetCurrentPath(topic_arg, path)
    \/ \E new_path \in PathNames : CreatePath(new_path, FALSE, HeadLocation)
    \/ \E new_path \in PathNames, loc \in ExprLocations : CreatePath(new_path, TRUE, loc)
    \/ \E file_ok \in BOOLEAN, topic_arg \in TopicArgs, path_arg \in PathArgs :
          AddNote(file_ok, topic_arg, path_arg)
    \/ \E path \in PathNames, topic_arg \in TopicArgs : RemovePath(path, topic_arg)
    \/ \E path \in PathNames, topic_arg \in TopicArgs, loc \in ExprLocations :
          ResetPath(path, topic_arg, loc)
    \/ \E loc \in ExprLocations : SolveLocation(loc)

Spec == Init /\ [][Next]_vars


\* Store::add_note taken write by write, with a crash possible in between.
NextCrash ==
    \/ Next
    \/ \E file_ok \in BOOLEAN, topic_arg \in TopicArgs, path_arg \in PathArgs :
          BeginAddNote(file_ok, topic_arg, path_arg)
    \/ StepWritePath
    \/ StepWriteNoteMetadata
    \/ StepUpdateNoteContent
    \/ Crash

SpecCrash == Init /\ [][NextCrash]_vars

\* Only add_note calls, on the topics create_topic made.
NextAddNote ==
    \/ StoreInit
    \/ Attach
    \/ \E topic \in TopicNames : CreateTopic(topic)
    \/ \E file_ok \in BOOLEAN, topic_arg \in TopicArgs, path_arg \in PathArgs :
          AddNote(file_ok, topic_arg, path_arg)

SpecAddNote == Init /\ [][NextAddNote]_vars

\* The notes of add_note and the keywords they are indexed under.
NextIndex ==
    \/ NextAddNote
    \/ \E keyword \in Keywords, note_id \in Ids : AddKeywordIndex(keyword, note_id)

SpecIndex == Init /\ [][NextIndex]_vars

\* Two processes that run add_note on one store, write by write.
NextRace ==
    \/ StoreInit
    \/ \E topic \in TopicNames : CreateTopic(topic)
    \/ \E file_ok \in BOOLEAN, topic_arg \in TopicArgs, path_arg \in PathArgs :
          BeginAddNote(file_ok, topic_arg, path_arg)
    \/ StepWritePath
    \/ StepWriteNoteMetadata
    \/ StepUpdateNoteContent
    \/ \E file_ok \in BOOLEAN, topic_arg \in TopicArgs, path_arg \in PathArgs :
          RacerBegin(file_ok, topic_arg, path_arg)
    \/ RacerWritePath
    \/ RacerWriteNoteMetadata
    \/ RacerUpdateNoteContent

SpecRace == Init /\ [][NextRace]_vars

\* The commands of add_note with the I/O errors the store may return to
\* the Organization, and the end of the process after a panic.
NextIo ==
    \/ NextAddNote
    \/ \E topic \in TopicNames : CreateTopicIoError(topic)
    \/ \E topic \in TopicNames : SetCurrentTopicIoError(topic)
    \/ GetCurrentTopicIoError
    \/ Crash

SpecIo == Init /\ [][NextIo]_vars

\* The notes of add_note, the references between them, and the paths
\* removed while the notes stay.
NextReference ==
    \/ NextAddNote
    \/ \E from_loc \in ExprLocations, to_loc \in ExprLocations :
          AddNoteReference(from_loc, to_loc)
    \/ \E path \in PathNames, topic_arg \in TopicArgs : RemovePath(path, topic_arg)

SpecReference == Init /\ [][NextReference]_vars


\* ------------------------------------------------------------------ claims
\* The notes Store::add_note inserted at (topic, path): their metadata
\* records the topic and the path they were inserted at.
Inserted(topic, path) ==
    {id \in Ids : has_metadata(meta, id) /\ meta[id].topic = topic /\ meta[id].path = path}

\* The note inserted at the same (topic, path) just before id, NoId for the first.
Previous(topic, path, id) ==
    LET before == {j \in Inserted(topic, path) : j < id}
    IN  IF before = {} THEN NoId ELSE CHOOSE j \in before : \A k \in before : k <= j

\* C1 as stated: over add_note calls alone, the first note inserted at a
\* (topic, path) has no parent and every later one has the note inserted
\* before it at that (topic, path) as parent.
C1_FirstNoteHasNoParent ==
    \A topic \in TopicNames, path \in PathNames :
        \A id \in Inserted(topic, path) :
            meta[id].parent_id = Previous(topic, path, id)

\* C1 amended: over add_note calls alone, every note but the first inserted
\* at a (topic, path) has the note inserted before it there as parent; the
\* first has no parent, or, when add_note made the path by branching from the
\* current path of the topic, the head it copied: a note inserted at another
\* path of that topic.
C1_ParentChain ==
    \A topic \in TopicNames, path \in PathNames :
        \A id \in Inserted(topic, path) :
            LET parent == meta[id].parent_id
            IN  IF Previous(topic, path, id) # NoId
                THEN parent = Previous(topic, path, id)
                ELSE \/ parent = NoId
                     \/ /\ has_metadata(meta, parent)
                        /\ meta[parent].topic = topic
                        /\ meta[parent].path # path

\* Two notes were inserted one after the other at the same (topic, path).
C1_Witness ==
    \E topic \in TopicNames, path \in PathNames :
        /\ Cardinality(Inserted(topic, path)) >= 2
        /\ \E id \in Inserted(topic, path) : meta[id].parent_id # NoId

\* C2: after every completed operation the head of every existing path is a
\* note whose metadata is stored, and a store in which no note was inserted
\* yet has no path.
C2_HeadsResolve ==
    Idle =>
        /\ \A topic \in TopicNames, path \in PathNames :
              path_exists(paths, topic, path) => has_metadata(meta, paths[topic][path])
        /\ next_id = 1 =>
              \A topic \in TopicNames, path \in PathNames : ~path_exists(paths, topic, path)

\* A path exists that is not the one its head was inserted at, next to one
\* that was removed.
C2_Witness ==
    \E topic \in TopicNames, path \in PathNames :
        /\ path_exists(paths, topic, path)
        /\ has_metadata(meta, paths[topic][path])
        /\ meta[paths[topic][path]].path # path
        /\ \E other \in PathNames : ~path_exists(paths, topic, other)

\* C3 as stated: whenever the process stops between two writes of add_note,
\* no path is left with a head that has no stored metadata.
C3_HeadWrittenLast ==
    Idle =>
        \A topic \in TopicNames, path \in PathNames :
            path_exists(paths, topic, path) => has_metadata(meta, paths[topic][path])

\* C4: every parent_id names a stored note created strictly earlier, so that
\* following parent_id from any note visits no note twice and, within as many
\* steps as there are notes, ends after a note without parent.
C4_ParentChainIsAcyclic ==
    \A id \in Ids :
        has_metadata(meta, id) =>
            /\ meta[id].parent_id # NoId =>
                  /\ meta[id].parent_id < id
                  /\ has_metadata(meta, meta[id].parent_id)
            /\ walk_history(meta, id, MaxNotes) = NoId

\* A note has a parent, and a path was reset or branched below its tip.
C4_Witness ==
    \E id \in Ids, topic \in TopicNames, path \in PathNames :
        /\ has_metadata(meta, id)
        /\ meta[id].parent_id # NoId
        /\ paths[topic][path] = meta[id].parent_id

\* A call of add_note that reaches Store::add_note can mint its identifier.
CanMint == next_id <= MaxNotes

\* The head (topic, path) has when Organization::add_note, called with
\* path_arg, reaches the insertion: the head it had before the call, or the
\* head of the current path when the call branches the path from it.
head_before_insertion(topic, path, path_arg) ==
    IF path_exists(paths, topic, path) THEN paths[topic][path]
    ELSE IF path_arg # NONE /\ HEAD[topic] # NONE THEN get_path(paths, topic, HEAD[topic])
    ELSE NoId

\* C5: when add_note returns the report {note_id, parent_id, topic, path},
\* the head of (topic, path) is note_id, parent_id is the head (topic, path)
\* had just before the insertion, topic is the current topic, path is the
\* current path of topic, and the stored metadata of note_id has the same
\* parent, topic and path.
C5_AddNoteReport ==
    \A file_ok \in BOOLEAN, topic_arg \in TopicArgs, path_arg \in PathArgs :
        LET e == add_note_effect(file_ok, topic_arg, path_arg)
        IN  (CanMint /\ e.ok) =>
               /\ e.paths[e.topic][e.path] = e.note_id
               /\ e.parent_id = head_before_insertion(e.topic, e.path, path_arg)
               /\ get_current_topic(e.current_topic, e.CURRENT) = e.topic
               /\ e.CURRENT = e.topic
               /\ e.HEAD[e.topic] = e.path
               /\ get_note_metadata(e.meta, e.note_id) =
                      [parent_id |-> e.parent_id, topic |-> e.topic, path |-> e.path]

\* The note at the head of the current path of the current topic has its
\* content, a parent, and that topic and path in its metadata.
C5_Witness ==
    \E id \in notes :
        /\ CURRENT = meta[id].topic
        /\ HEAD[meta[id].topic] = meta[id].path
        /\ paths[meta[id].topic][meta[id].path] = id
        /\ meta[id].parent_id # NoId

\* C6: in a topic without current path, add_note without path makes "main"
\* the current path and inserts there a note without parent; add_note without
\* path in a topic whose current path is "main" inserts a note whose parent
\* is the head of "main", which it replaces as head, and "main" stays
\* current.  This holds in every topic.
C6_DefaultPathMain ==
    \A file_ok \in BOOLEAN, topic_arg \in TopicArgs :
        LET e == add_note_effect(file_ok, topic_arg, NONE)
        IN  (CanMint /\ e.stored) =>
               /\ HEAD[e.topic] = NONE =>
                     /\ e.path = "main"
                     /\ e.parent_id = NoId
               /\ (HEAD[e.topic] = "main" /\ path_exists(paths, e.topic, "main")) =>
                     /\ e.path = "main"
                     /\ e.parent_id = paths[e.topic]["main"]
               /\ HEAD[e.topic] \in {NONE, "main"} =>
                     /\ e.HEAD[e.topic] = "main"
                     /\ e.paths[e.topic]["main"] = e.note_id
                     /\ get_note_metadata(e.meta, e.note_id) =
                            [parent_id |-> e.parent_id, topic |-> e.topic, path |-> "main"]

\* Two topics exist; in one of them "main" is the only path, is current and
\* holds two notes, the second on top of the first.
C6_Witness ==
    \E topic \in TopicNames :
        /\ Cardinality(topics) = 2
        /\ HEAD[topic] = "main"
        /\ \A other \in PathNames \ {"main"} : ~path_exists(paths, topic, other)
        /\ Inserted(topic, "main") = {1, 2}
        /\ paths[topic]["main"] = 2
        /\ meta[2].parent_id = 1
        /\ meta[1].parent_id = NoId

\* C7: add_note with a path that does not exist, in a topic whose current
\* path exists, inserts a note whose parent is the head of the current path,
\* leaves that head as it is, makes the new note the head of the new path and
\* the new path the current one.
C7_BranchFromCurrent ==
    \A file_ok \in BOOLEAN, topic_arg \in TopicArgs, path_arg \in PathNames :
        LET e    == add_note_effect(file_ok, topic_arg, path_arg)
            curr == HEAD[e.topic]
        IN  ( /\ CanMint
              /\ e.topic # NONE
              /\ ~path_exists(paths, e.topic, path_arg)
              /\ curr # NONE
              /\ path_exists(paths, e.topic, curr) ) =>
               /\ e.stored
               /\ e.parent_id = paths[e.topic][curr]
               /\ get_note_metadata(e.meta, e.note_id).parent_id = paths[e.topic][curr]
               /\ e.paths[e.topic][curr] = paths[e.topic][curr]
               /\ e.paths[e.topic][path_arg] = e.note_id
               /\ e.HEAD[e.topic] = path_arg

\* The current path of a topic holds a note inserted at it whose parent is
\* the head of another path of the topic.
C7_Witness ==
    \E topic \in TopicNames, curr \in PathNames, path \in PathNames :
        /\ curr # path
        /\ path_exists(paths, topic, curr)
        /\ path_exists(paths, topic, path)
        /\ HEAD[topic] = path
        /\ meta[paths[topic][path]] =
               [parent_id |-> paths[topic][curr], topic |-> topic, path |-> path]
        /\ meta[paths[topic][curr]].path = curr

\* C8: add_note with a topic that exists makes it the current topic; with a
\* topic that does not exist, or without topic when no current topic is set,
\* it fails, creates no note and changes no head.
C8_AddNoteTopic ==
    \A file_ok \in BOOLEAN, topic_arg \in TopicArgs, path_arg \in PathArgs :
        LET e == add_note_effect(file_ok, topic_arg, path_arg)
        IN  /\ (topic_arg # NONE /\ topic_exists(topics, topic_arg)) =>
                  /\ e.CURRENT = topic_arg
                  /\ get_current_topic(e.current_topic, e.CURRENT) = topic_arg
                  /\ e.stored => e.topic = topic_arg
            /\ ( \/ topic_arg # NONE /\ ~topic_exists(topics, topic_arg)
                 \/ topic_arg = NONE /\ get_current_topic(current_topic, CURRENT) = NONE ) =>
                  /\ ~e.ok
                  /\ ~e.stored
                  /\ e.paths = paths
                  /\ e.meta = meta
                  /\ e.notes = notes
                  /\ e.next_id = next_id

\* The two notes were inserted in different topics, the second in the
\* current one, and a topic is still unknown to the store.
C8_Witness ==
    /\ has_metadata(meta, 1)
    /\ has_metadata(meta, 2)
    /\ meta[1].topic # meta[2].topic
    /\ CURRENT = meta[2].topic
    /\ current_topic = meta[2].topic

\* C9: create_path from a source path S to a path P that does not exist sets
\* the head of P to the head of S and creates no note; add_note on an
\* existing path S gives S a new head and leaves the head of every other
\* path as it is, so the head of P stays the one copied at branching.
C9_BranchCopy ==
    /\ \A new_path \in PathNames, has_location \in BOOLEAN,
          loc_arg \in {l \in RelLocations : l.modifier = 0} :
          LET loc == location_or_head(has_location, loc_arg)
              r   == solve_relative(topics, current_topic, CURRENT, HEAD, paths, meta, loc)
              e   == create_path_effect(new_path, has_location, loc_arg, r)
          IN  (resolved(r) /\ ~path_exists(paths, e.topic, new_path)) =>
                 /\ e.ok
                 /\ e.paths[e.topic][new_path] = paths[r.topic][r.path]
                 /\ \A topic \in TopicNames, path \in PathNames :
                       <<topic, path>> # <<e.topic, new_path>> =>
                           e.paths[topic][path] = paths[topic][path]
                 /\ e.meta = meta /\ e.notes = notes /\ e.next_id = next_id
    /\ \A file_ok \in BOOLEAN, topic_arg \in TopicArgs, path_arg \in PathArgs :
          LET e == add_note_effect(file_ok, topic_arg, path_arg)
          IN  (CanMint /\ e.stored /\ path_exists(paths, e.topic, e.path)) =>
                 /\ e.paths[e.topic][e.path] = e.note_id
                 /\ e.paths[e.topic][e.path] # paths[e.topic][e.path]
                 /\ \A topic \in TopicNames, path \in PathNames :
                       <<topic, path>> # <<e.topic, e.path>> =>
                           e.paths[topic][path] = paths[topic][path]

\* A path P has as head the first note inserted at another path S of its
\* topic, and S, still the current path, has moved on to a second note.
C9_Witness ==
    \E topic \in TopicNames, S \in PathNames, P \in PathNames :
        /\ S # P
        /\ HEAD[topic] = S
        /\ paths[topic][P] = 1
        /\ paths[topic][S] = 2
        /\ meta[1] = [parent_id |-> NoId, topic |-> topic, path |-> S]
        /\ meta[2] = [parent_id |-> 1, topic |-> topic, path |-> S]

\* C10 as stated: create_path with the name of a path that exists in the
\* topic fails and leaves the head of that path as it is.
C10_PathAlreadyExists ==
    \A new_path \in PathNames, loc \in Locations :
        \A r \in solve_location(topics, current_topic, CURRENT, HEAD, paths, meta, loc) :
            LET e == create_path_effect(new_path, TRUE, loc, r)
            IN  (resolved(r) /\ path_exists(paths, e.topic, new_path)) =>
                   /\ ~e.ok
                   /\ e.paths = paths

\* C11: create_path fails and creates no path in any topic when (a) the
\* location names no topic and no current topic is set, (b) no location is
\* given and the current topic has no note at its current path, or (c) the
\* location names a topic or a path that does not exist.
C11_CreatePathFails ==
    \A new_path \in PathNames, has_location \in BOOLEAN, loc_arg \in RelLocations :
        LET loc   == location_or_head(has_location, loc_arg)
            topic == IF loc.topic = NONE
                     THEN get_current_topic(current_topic, CURRENT)
                     ELSE loc.topic
        IN  \A r \in solve_location(topics, current_topic, CURRENT, HEAD, paths, meta, loc) :
              LET e == create_path_effect(new_path, has_location, loc_arg, r)
              IN  ( \/ loc.topic = NONE /\ topic = NONE
                    \/ /\ ~has_location
                       /\ topic # NONE
                       /\ \/ HEAD[topic] = NONE
                          \/ ~path_exists(paths, topic, HEAD[topic])
                    \/ /\ has_location
                       /\ \/ loc.topic # NONE /\ ~topic_exists(topics, loc.topic)
                          \/ /\ topic # NONE
                             /\ loc.path # "HEAD"
                             /\ ~path_exists(paths, topic, loc.path) ) =>
                     /\ ~e.ok
                     /\ e.paths = paths

\* The current topic has no current path and no path, while another topic
\* holds a note at a path: cases (b) and (c) of C11 can happen here.
C11_Witness ==
    /\ CURRENT \in topics
    /\ HEAD[CURRENT] = NONE
    /\ \E id \in Ids :
          /\ has_metadata(meta, id)
          /\ meta[id].topic # CURRENT
          /\ path_exists(paths, meta[id].topic, meta[id].path)
          /\ ~path_exists(paths, CURRENT, meta[id].path)

\* C12: remove_path on an existing path deletes only its head file: the path
\* no longer exists, every other path of every topic keeps its head, every
\* note keeps its metadata and content, and removing the path again fails;
\* remove_path on a path that does not exist fails and changes no path.
C12_RemovePathFrame ==
    \A path \in PathNames, topic_arg \in TopicArgs :
        LET e == remove_path_effect(path, topic_arg)
        IN  e.topic # NONE =>
              /\ path_exists(paths, e.topic, path) =>
                    /\ e.ok
                    /\ ~path_exists(e.paths, e.topic, path)
                    /\ \A topic \in TopicNames, other \in PathNames :
                          <<topic, other>> # <<e.topic, path>> =>
                              e.paths[topic][other] = paths[topic][other]
                    /\ e.meta = meta
                    /\ e.notes = notes
                    /\ ~remove_path_ok(e.current_topic, CURRENT, e.paths, path, topic_arg)
              /\ ~path_exists(paths, e.topic, path) =>
                    /\ ~e.ok
                    /\ e.paths = paths

\* The path a stored note was inserted at is gone, another path of its topic
\* is still there, and the note is still stored.
C12_Witness ==
    \E id \in Ids, other \in PathNames :
        /\ has_metadata(meta, id)
        /\ id \in notes
        /\ ~path_exists(paths, meta[id].topic, meta[id].path)
        /\ path_exists(paths, meta[id].topic, other)

\* C13: reset_path on an existing path with a location that resolves to a
\* note makes that note the head of the path, so that get_path returns it,
\* and changes the head of no other path; with a location that resolves to
\* no note it fails and leaves every head as it is.
C13_ResetPath ==
    \A path \in PathNames, topic_arg \in TopicArgs, loc \in ExprLocations :
        \A r \in solve_location(topics, current_topic, CURRENT, HEAD, paths, meta, loc) :
            LET e == reset_path_effect(path, topic_arg, loc, r)
            IN  /\ (resolved(r) /\ e.topic # NONE /\ path_exists(paths, e.topic, path)) =>
                      /\ e.ok
                      /\ get_path(e.paths, e.topic, path) = r.id
                      /\ has_metadata(meta, r.id)
                      /\ \A topic \in TopicNames, other \in PathNames :
                            <<topic, other>> # <<e.topic, path>> =>
                                e.paths[topic][other] = paths[topic][other]
                /\ ~resolved(r) =>
                      /\ ~e.ok
                      /\ e.paths = paths

\* The head of a path is the first note although the second note was
\* inserted at that path on top of it: the path was moved back.
C13_Witness ==
    \E topic \in TopicNames, path \in PathNames :
        /\ paths[topic][path] = 1
        /\ meta[2] = [parent_id |-> 1, topic |-> topic, path |-> path]

\* C14: create_topic of a name that is not a topic succeeds and makes it a
\* topic; create_topic of a name that is a topic fails and leaves the set of
\* topics, the current topic and every path as they are; and no operation
\* removes a topic, so that every later create_topic of the name fails.
C14_CreateTopicOnce ==
    /\ [](\A name \in TopicNames :
            LET e == create_topic_effect(name)
            IN  /\ name \notin topics =>
                      /\ e.ok
                      /\ e.topics = topics \cup {name}
                /\ name \in topics =>
                      /\ ~e.ok
                      /\ e.topics = topics
                      /\ e.CURRENT = CURRENT
                      /\ e.current_topic = current_topic
                      /\ e.paths = paths
                      /\ e.HEAD = HEAD)
    /\ [][topics \subseteq topics']_vars

\* Both topics exist and hold a note, and the current topic is the first
\* one created: a second create_topic of either name is a later call.
C14_Witness ==
    /\ topics = TopicNames
    /\ has_metadata(meta, 1)
    /\ has_metadata(meta, 2)
    /\ meta[1].topic # meta[2].topic
    /\ CURRENT = meta[1].topic

\* C15: a repository has no current topic exactly when it has no topic;
\* create_topic of a new name makes it the current topic when there is none,
\* and leaves the current topic as it is when there is one.
C15_FirstTopicIsCurrent ==
    /\ (topics = {}) <=> (CURRENT = NONE)
    /\ current_topic \in {NONE, CURRENT}
    /\ \A name \in TopicNames :
          LET e == create_topic_effect(name)
          IN  name \notin topics =>
                 /\ CURRENT = NONE =>
                       /\ e.CURRENT = name
                       /\ e.current_topic = name
                 /\ CURRENT # NONE =>
                       /\ e.CURRENT = CURRENT
                       /\ e.current_topic = CURRENT

\* Two topics exist, the current one is not the one the only note was
\* inserted in, and the engine has not loaded the current topic yet.
C15_Witness ==
    /\ topics = TopicNames
    /\ current_topic = NONE
    /\ CURRENT \in topics
    /\ has_metadata(meta, 1)
    /\ meta[1].topic # CURRENT

\* C16: set_current_topic of a topic that exists makes it the current topic,
\* which a following get_current_topic returns; of a name that is no topic
\* it fails and leaves the current topic as it is.
C16_SetCurrentTopic ==
    \A name \in TopicNames :
        LET r == set_current_topic(topics, current_topic, CURRENT, name)
        IN  /\ name \in topics =>
                  /\ r.ok
                  /\ r.CURRENT = name
                  /\ r.current_topic = name
            /\ name \notin topics =>
                  /\ ~r.ok
                  /\ r.CURRENT = CURRENT
                  /\ r.current_topic = current_topic

\* The current topic is the topic created second, while a topic of the
\* store holds the notes and is not current.
C16_Witness ==
    /\ topics = TopicNames
    /\ CURRENT \in topics
    /\ current_topic = CURRENT
    /\ has_metadata(meta, 1)
    /\ has_metadata(meta, 2)
    /\ meta[1].topic = meta[2].topic
    /\ meta[1].topic # CURRENT

\* The relative locations `P:-N` with N up to the number of notes, and
\* their text; N = 0 is spelled `P:-0` or `P`.
WalkLocations ==
    [kind : {"rel"}, topic : TopicNames \cup {NONE},
     path : PathNames \cup {"HEAD"}, modifier : 0..MaxNotes, subuuid : {0}]

walk_text(loc, spelled) ==
    IF loc.modifier = 0 /\ spelled
    THEN relative_text(loc) \o <<":", "-", "0">>
    ELSE relative_text(loc)

\* The topic a relative location is resolved in.
location_topic(loc) ==
    IF loc.topic = NONE THEN get_current_topic(current_topic, CURRENT) ELSE loc.topic

\* The path the token of a relative location stands for in the topic.
location_path(loc, topic) ==
    IF loc.path # "HEAD" THEN loc.path
    ELSE IF HEAD[topic] = NONE THEN "main"
    ELSE HEAD[topic]

\* The note reached from id by following parent_id exactly n times: the end
\* of the chain of n + 1 stored notes that starts at id, NoId when there is
\* no such chain.
Ancestor(id, n) ==
    LET chains == {c \in [0..n -> Ids] :
                      /\ c[0] = id
                      /\ has_metadata(meta, id)
                      /\ \A i \in 1..n : c[i] = meta[c[i - 1]].parent_id}
    IN  IF chains = {} THEN NoId ELSE (CHOOSE c \in chains : TRUE)[n]

\* C17: in an existing topic, the expression `P:-N` (P a path name or HEAD)
\* resolves without error to the note reached by following parent_id exactly
\* N times from the head of P: the head itself for N = 0 or no modifier, and
\* no note when the head has fewer than N ancestors.
C17_HistoryWalk ==
    \A loc \in WalkLocations, spelled \in BOOLEAN :
        LET parsed == captures(walk_text(loc, spelled))
            topic  == location_topic(loc)
            r      == solve_relative(topics, current_topic, CURRENT, HEAD, paths, meta, parsed)
        IN  /\ parsed = loc
            /\ topic \in topics =>
                  /\ ~r.err
                  /\ r.id = Ancestor(get_path(paths, topic, location_path(loc, topic)),
                                     loc.modifier)

\* The head of the current path of the current topic is the second note, its
\* parent the first note, which has no parent: `HEAD:-1` is the first note
\* and `HEAD:-2` is no note.
C17_Witness ==
    /\ CURRENT \in topics
    /\ HEAD[CURRENT] # NONE
    /\ get_path(paths, CURRENT, HEAD[CURRENT]) = 2
    /\ Ancestor(2, 1) = 1
    /\ Ancestor(2, 2) = NoId

\* C18: in an existing topic, HEAD stands for the current path of the topic,
\* or for "main" when the topic has no _HEAD, and resolves to the head of
\* that path; the name of a path that does not exist in the topic resolves
\* to no note and not to an error.
C18_HeadToken ==
    \A loc \in {l \in RelLocations : l.modifier = 0} :
        LET topic == location_topic(loc)
            r     == solve_relative(topics, current_topic, CURRENT, HEAD, paths, meta,
                                    captures(relative_text(loc)))
        IN  topic \in topics =>
               /\ loc.path = "HEAD" =>
                     /\ ~r.err
                     /\ HEAD[topic] # NONE => r.path = HEAD[topic]
                     /\ HEAD[topic] = NONE => r.path = "main"
                     /\ r.id = get_path(paths, topic, r.path)
               /\ (loc.path # "HEAD" /\ ~path_exists(paths, topic, loc.path)) =>
                     /\ ~r.err
                     /\ r.id = NoId

\* A topic has no current path, and the current path of another topic is a
\* path other than "main" that holds a note.
C18_Witness ==
    \E topic \in topics, other \in topics :
        /\ HEAD[topic] = NONE
        /\ HEAD[other] \notin {NONE, "main"}
        /\ path_exists(paths, other, HEAD[other])

\* C19 as stated: the expression made of the first 8 characters of the
\* identifier of a stored note resolves to the metadata of a note whose
\* identifier starts with them.
C19_ShortIdLookup ==
    \A id \in Ids :
        has_metadata(meta, id) =>
            \A r \in solve_location(topics, current_topic, CURRENT, HEAD, paths, meta,
                                    captures(short_text(short_uuid(id)))) :
                /\ ~r.err
                /\ has_metadata(meta, r.id)
                /\ short_uuid(r.id) = short_uuid(id)

\* C20 as stated: an expression of 13 hexadecimal digits is rejected as an
\* invalid location.
C20_ThirteenHexRejected ==
    \A expr \in Exprs :
        is_xdigits(expr, 13) =>
            /\ captures(expr).kind = "invalid"
            /\ \A r \in solve_location(topics, current_topic, CURRENT, HEAD, paths, meta,
                                       captures(expr)) : r.err

\* C20 amended: an expression of 13 characters made of 8 hexadecimal digits,
\* a hyphen and 4 hexadecimal digits is rejected as an invalid location; an
\* expression of 13 hexadecimal digits is a relative location, the name of a
\* path of the current topic, and resolves to no note when there is a
\* current topic with no such path.
C20_PartialUuidRejected ==
    \A expr \in Exprs :
        /\ ( /\ Len(expr) = 13
             /\ is_xdigits(SubSeq(expr, 1, 8), 8)
             /\ expr[9] = "-"
             /\ is_xdigits(SubSeq(expr, 10, 13), 4) ) =>
               /\ captures(expr).kind = "invalid"
               /\ \A r \in solve_location(topics, current_topic, CURRENT, HEAD, paths, meta,
                                          captures(expr)) : r.err /\ r.id = NoId
        /\ is_xdigits(expr, 13) =>
               /\ captures(expr).kind = "rel"
               /\ captures(expr).topic = NONE
               /\ get_current_topic(current_topic, CURRENT) # NONE =>
                     \A r \in solve_location(topics, current_topic, CURRENT, HEAD, paths,
                                             meta, captures(expr)) :
                         ~r.err /\ r.id = NoId

\* A note is stored whose identifier starts with the first 8 digits of the
\* expression of 13 hexadecimal digits, a current topic is set, and that
\* expression resolves to no note without error while the cut identifier is
\* an error.
C20_Witness ==
    /\ has_metadata(meta, 1)
    /\ SubSeq(ThirteenHex, 1, 8) = short_text(short_uuid(1))
    /\ CURRENT # NONE
    /\ solve_location(topics, current_topic, CURRENT, HEAD, paths, meta,
                      captures(ThirteenHex)) =
           {[err |-> FALSE, id |-> NoId, topic |-> CURRENT, path |-> OtherName]}
    /\ \A r \in solve_location(topics, current_topic, CURRENT, HEAD, paths, meta,
                               captures(PartialUuid)) : r.err

\* The expressions of tests::note_location_wrong: the empty text, a modifier
\* that is not ":-" and digits, two "/" separators, a cut identifier.
WrongExprs ==
    {<<>>,
     NameText["t1"] \o <<":">> \o NameText["p1"],
     NameText["main"] \o <<":", "+", "1">>,
     NameText["main"] \o <<":", "-">>,
     NameText["t1"] \o <<"/">> \o NameText["t2"] \o <<"/">> \o NameText["p1"],
     PartialUuid}

\* C21: an expression that matches neither RELATIVE_LOC nor ABSOLUTE_LOC is
\* rejected with an error whatever the store contains; the empty text, a
\* modifier that is not ":-" followed by digits, more than one "/" and a
\* partial hyphenated identifier match neither and are rejected.
C21_InvalidRejected ==
    /\ WrongExprs \subseteq Exprs
    /\ \A expr \in WrongExprs : ~RELATIVE_LOC(expr) /\ ~ABSOLUTE_LOC(expr)
    /\ \A expr \in Exprs :
          (~RELATIVE_LOC(expr) /\ ~ABSOLUTE_LOC(expr)) =>
              \A r \in solve_location(topics, current_topic, CURRENT, HEAD, paths, meta,
                                      captures(expr)) : r.err /\ r.id = NoId

\* The store holds a note at the head of the current path of the current
\* topic, and the expressions of the test are rejected all the same.
C21_Witness ==
    /\ CURRENT # NONE
    /\ HEAD[CURRENT] # NONE
    /\ paths[CURRENT][HEAD[CURRENT]] # NoId
    /\ \A expr \in WrongExprs :
          solve_location(topics, current_topic, CURRENT, HEAD, paths, meta,
                         captures(expr)) =
              {[err |-> TRUE, id |-> NoId, topic |-> NONE, path |-> NONE]}

\* C30 as stated: no expression matches both RELATIVE_LOC and ABSOLUTE_LOC,
\* and every expression that matches ABSOLUTE_LOC (8 hexadecimal digits, or a
\* full hyphenated identifier) is resolved by the scan of the short ids.
C30_MutuallyExclusive ==
    \A expr \in Exprs :
        /\ ~(RELATIVE_LOC(expr) /\ ABSOLUTE_LOC(expr))
        /\ ABSOLUTE_LOC(expr) =>
              solve_location(topics, current_topic, CURRENT, HEAD, paths, meta,
                             captures(expr)) =
                  {[err |-> FALSE, id |-> id, topic |-> NONE, path |-> NONE] :
                      id \in search_short_uuid(meta, subuuid_of(SubSeq(expr, 1, 8)))}

\* C25 as stated: an add_note that returns a failure leaves the topics, the
\* current topic, the current path of every topic, the head of every path
\* and the notes as they were before the call.
C25_FailureLeavesState ==
    \A file_ok \in BOOLEAN, topic_arg \in TopicArgs, path_arg \in PathArgs :
        LET e == add_note_effect(file_ok, topic_arg, path_arg)
        IN  (Attached /\ ~e.ok /\ (e.stored => next_id <= MaxNotes)) =>
                /\ get_current_topic(e.current_topic, e.CURRENT)
                       = get_current_topic(current_topic, CURRENT)
                /\ e.CURRENT = CURRENT
                /\ e.HEAD = HEAD
                /\ e.paths = paths
                /\ e.meta = meta
                /\ e.notes = notes

\* C29 as stated: a Store::add_note that fails has made none of its three
\* writes: the path has the head it had and the minted identifier has no
\* metadata.
C29_StoreAddNoteAtomic ==
    \A topic \in topics, path \in PathNames, file_ok \in BOOLEAN :
        LET a == store_add_note(paths, meta, notes, next_id, topic, path, file_ok)
        IN  (Attached /\ next_id <= MaxNotes /\ ~a.ok) =>
                /\ a.paths = paths
                /\ ~has_metadata(a.meta, next_id)
                /\ a.notes = notes

\* C27: Store::init succeeds exactly when nothing exists at the location, and
\* then leaves a repository with no topic, no path, no current topic, no
\* note and an index without keyword; at a location that holds a repository
\* (or anything else) it fails and leaves every file as it was.
C27_Initialize ==
    LET e == init_effect
    IN  /\ e.ok <=> base_dir = "absent"
        /\ base_dir = "absent" => current_topic = NONE
        /\ e.ok =>
              /\ e.base_dir = "repository"
              /\ e.topics = {}
              /\ e.CURRENT = NONE
              /\ \A t \in TopicNames :
                    /\ e.HEAD[t] = NONE
                    /\ \A p \in PathNames : ~path_exists(e.paths, t, p)
              /\ \A id \in Ids : ~has_metadata(e.meta, id)
              /\ e.notes = {}
              /\ \A k \in Keywords : e.index[k] = <<>>
        /\ ~e.ok =>
              /\ e.base_dir = base_dir
              /\ e.topics = topics
              /\ e.CURRENT = CURRENT
              /\ e.HEAD = HEAD
              /\ e.paths = paths
              /\ e.meta = meta
              /\ e.notes = notes
              /\ e.references = references
              /\ e.index = index

\* Store::init has made a repository, a topic and a note were added to it,
\* and a second Store::init fails.
C27_Witness ==
    /\ base_dir = "repository"
    /\ topics # {}
    /\ notes # {}
    /\ ~init_effect.ok

\* The identifiers of a sequence.
Range(s) == {s[i] : i \in 1..Len(s)}

\* C22: after a note is added to the index under k1 and under k2 # k1,
\* get_meta_from_index returns it for k1 and for k2, and an addition under
\* one keyword leaves the list of every other keyword as it was.
C22_KeywordsIndependent ==
    /\ \A k \in Keywords : get_meta_from_index(index, meta, k) = index[k]
    /\ \A k1 \in Keywords, note_id \in Ids :
          has_metadata(meta, note_id) =>
              LET idx1 == add_keyword_index(index, k1, note_id)
              IN  /\ note_id \in Range(get_meta_from_index(idx1, meta, k1))
                  /\ \A k2 \in Keywords \ {k1} :
                        /\ idx1[k2] = index[k2]
                        /\ get_meta_from_index(idx1, meta, k2)
                               = get_meta_from_index(index, meta, k2)
                        /\ LET idx2 == add_keyword_index(idx1, k2, note_id)
                           IN  /\ note_id \in Range(get_meta_from_index(idx2, meta, k1))
                               /\ note_id \in Range(get_meta_from_index(idx2, meta, k2))
                               /\ idx2[k1] = idx1[k1]

\* Note 2 is indexed under k1 and under k2, after note 1 under k1 only.
C22_Witness ==
    /\ index["k1"] = <<1, 2>>
    /\ index["k2"] = <<2>>
    /\ get_meta_from_index(index, meta, "k1") = <<1, 2>>
    /\ get_meta_from_index(index, meta, "k2") = <<2>>

\* The count get_keywords reports for a keyword, 0 when it reports none.
keyword_count(idx, k) ==
    IF \E p \in get_keywords(idx) : p[1] = k
    THEN (CHOOSE p \in get_keywords(idx) : p[1] = k)[2]
    ELSE 0

\* C23: get_keywords reports one pair per keyword that was added and none
\* for the others; every add_keyword_index raises the count of its keyword
\* by one, also when the note is already listed under it, and changes no
\* other count, so that the count of a keyword is the number of additions
\* made under it since the empty index of Store::init.
C23_CountsAdditions ==
    /\ \A k \in Keywords :
          /\ Cardinality({p \in get_keywords(index) : p[1] = k})
                 = IF index[k] = <<>> THEN 0 ELSE 1
          /\ keyword_count(index, k) = Len(index[k])
    /\ init_effect.ok => get_keywords(init_effect.index) = {}
    /\ \A k \in Keywords, note_id \in Ids :
          has_metadata(meta, note_id) =>
              LET idx1 == add_keyword_index(index, k, note_id)
              IN  /\ keyword_count(idx1, k) = keyword_count(index, k) + 1
                  /\ Cardinality({p \in get_keywords(idx1) : p[1] = k}) = 1
                  /\ \A k2 \in Keywords \ {k} :
                        keyword_count(idx1, k2) = keyword_count(index, k2)

\* Note 1 was added twice under k1 and once under k2.
C23_Witness ==
    /\ index["k1"] = <<1, 1>>
    /\ get_keywords(index) = {<<"k1", 2>>, <<"k2", 1>>}

\* s is the beginning of t.
IsPrefix(s, t) == Len(s) <= Len(t) /\ SubSeq(t, 1, Len(s)) = s

\* C26: the identifier minted next is the one of no stored note, so that no
\* add_note writes the files of an existing note; every step leaves the
\* parent_id, the topic and the path of every stored note and its content
\* file in place, only appends to its references, and removes no note.
C26_NotesImmutable ==
    /\ [](\A id \in Ids : (has_metadata(meta, id) \/ id \in notes) => id < next_id)
    /\ [][ /\ notes \subseteq notes'
           /\ \A id \in Ids :
                 has_metadata(meta, id) =>
                     /\ meta'[id] = meta[id]
                     /\ IsPrefix(references[id], references'[id]) ]_vars

\* Note 1 has received two references, to note 2 and then to itself, and
\* the path it was inserted at has been removed or has moved on.
C26_Witness ==
    /\ has_metadata(meta, 1)
    /\ 1 \in notes
    /\ references[1] = <<2, 1>>
    /\ get_path(paths, meta[1].topic, meta[1].path) # 1

\* C24 as stated: no operation of the Organization ends the process, also
\* when an operation of the Store returns an I/O error.
C24_NoAbort == inflight.pc # "panic"

\* The names a topic or a path may be given: names of the store, and names
\* that hold a line feed or end with a carriage return, which create_topic
\* and add_note accept as they accept any name.
MetaNames ==
    {NameText["t1"], NameText["main"], NameText["p1"],
     <<"t", LF, "1">>, <<"t", "1", CR>>}

\* The sequences of at most MaxReferences identifiers.
ReferenceLists ==
    UNION {[1..n -> Ids] : n \in 0..MaxReferences}

\* The metadata records with a non-empty topic and path.
MetaRecords ==
    [parent_id : Ids \cup {NoId}, topic : MetaNames, path : MetaNames,
     references : ReferenceLists]

\* The metadata the store holds for a stored note, names spelled out.
stored_record(id) ==
    [parent_id |-> meta[id].parent_id, topic |-> NameText[meta[id].topic],
     path |-> NameText[meta[id].path], references |-> references[id]]

\* C28 as stated: for every metadata record with a non-empty topic and
\* path, with or without parent and with zero or more references,
\* parse_meta_file of its serialization returns the same parent_id, topic,
\* path and references; without references the serialization is three
\* lines and ends with the path.
C28_RoundTrip ==
    \A md \in MetaRecords \cup {stored_record(id) : id \in {i \in Ids : has_metadata(meta, i)}} :
        (md.topic # <<>> /\ md.path # <<>>) =>
            /\ parse_meta_file(serialize(md))
                   = [err |-> FALSE, parent_id |-> md.parent_id, topic |-> md.topic,
                      path |-> md.path, references |-> md.references]
            /\ md.references = <<>> =>
                  serialize(md) =
                      (IF md.parent_id = NoId THEN <<>> ELSE uuid_text(md.parent_id))
                          \o <<LF>> \o md.topic \o <<LF>> \o md.path

\* C31: get_current_topic returns the content of _CURRENT, in every state
\* and after each of create_topic, set_current_topic and add_note, whether
\* the call succeeds or fails; an Organization made anew on the same store
\* (empty cache) returns on its first call the topic the last successful
\* switch made current.
C31_CacheRefinesMarker ==
    /\ get_current_topic(current_topic, CURRENT) = CURRENT
    /\ get_current_topic(NONE, CURRENT) = CURRENT
    /\ \A name \in TopicNames :
          LET e == create_topic_effect(name)
              r == set_current_topic(topics, current_topic, CURRENT, name)
          IN  /\ get_current_topic(e.current_topic, e.CURRENT) = e.CURRENT
              /\ get_current_topic(r.current_topic, r.CURRENT) = r.CURRENT
              /\ r.ok => get_current_topic(NONE, r.CURRENT) = name
    /\ \A file_ok \in BOOLEAN, topic_arg \in TopicArgs, path_arg \in PathArgs :
          LET e == add_note_effect(file_ok, topic_arg, path_arg)
          IN  /\ get_current_topic(e.current_topic, e.CURRENT) = e.CURRENT
              /\ (topic_arg # NONE /\ topic_arg \in topics) =>
                    get_current_topic(NONE, e.CURRENT) = topic_arg

\* The second note was added with a topic that was not the current one,
\* which made it current, and an Organization made anew has not read
\* _CURRENT yet.
C31_Witness ==
    /\ has_metadata(meta, 1)
    /\ has_metadata(meta, 2)
    /\ meta[1].topic # meta[2].topic
    /\ CURRENT = meta[2].topic
    /\ current_topic = NONE
    /\ get_current_topic(current_topic, CURRENT) = meta[2].topic

\* C33: set_current_path returns Ok exactly when the path exists in the
\* topic given, or in the current topic when none is given, and then that
\* path is the current path of that topic and of no other; when the path
\* does not exist it returns PathDoesNotExist, when there is no topic given
\* and no current topic it fails, and both failures leave the current path
\* of every topic as it was.
C33_SetCurrentPath ==
    \A topic_arg \in TopicArgs, path \in PathNames :
        LET e     == set_current_path_effect(topic_arg, path)
            topic == IF topic_arg # NONE THEN topic_arg
                     ELSE get_current_topic(current_topic, CURRENT)
        IN  /\ e.ok <=> (topic # NONE /\ path_exists(paths, topic, path))
            /\ e.ok =>
                  /\ e.error = "none"
                  /\ store_get_current_path(e.HEAD, topic) = path
                  /\ \A other \in TopicNames \ {topic} : e.HEAD[other] = HEAD[other]
            /\ (topic # NONE /\ ~path_exists(paths, topic, path)) =>
                  /\ e.error = "PathDoesNotExist"
                  /\ e.HEAD = HEAD
            /\ topic = NONE =>
                  /\ ~e.ok
                  /\ e.error # "none"
                  /\ e.HEAD = HEAD

\* The current topic has two paths and its current path is not the one of
\* the last note, so that set_current_path has switched back, while the
\* other topic has no path to switch to.
C33_Witness ==
    /\ topics = TopicNames
    /\ CURRENT # NONE
    /\ \A p \in PathNames : path_exists(paths, CURRENT, p)
    /\ has_metadata(meta, 2)
    /\ meta[2].topic = CURRENT
    /\ HEAD[CURRENT] # meta[2].path
    /\ paths[CURRENT][meta[2].path] = 2
    /\ \A t \in TopicNames \ {CURRENT}, p \in PathNames : ~path_exists(paths, t, p)

\* C34: the current topic, when set, is a topic of the store, in _CURRENT
\* and in the cache, in every state and after each of create_topic,
\* set_current_topic and add_note, whether the call succeeds or fails.
C34_CurrentTopicExists ==
    /\ CURRENT # NONE => CURRENT \in topics
    /\ current_topic # NONE => current_topic \in topics
    /\ \A name \in TopicNames :
          LET e == create_topic_effect(name)
              r == set_current_topic(topics, current_topic, CURRENT, name)
          IN  /\ e.CURRENT # NONE => e.CURRENT \in e.topics
              /\ e.current_topic # NONE => e.current_topic \in e.topics
              /\ r.CURRENT # NONE => r.CURRENT \in topics
              /\ r.current_topic # NONE => r.current_topic \in topics
    /\ \A file_ok \in BOOLEAN, topic_arg \in TopicArgs, path_arg \in PathArgs :
          LET e == add_note_effect(file_ok, topic_arg, path_arg)
          IN  /\ e.CURRENT # NONE => e.CURRENT \in topics
              /\ e.current_topic # NONE => e.current_topic \in topics

\* One topic exists and is current, it holds a note, and the other name
\* is still the name of no topic: set_current_topic and add_note with that
\* name fail.
C34_Witness ==
    /\ Cardinality(topics) = 1
    /\ CURRENT \in topics
    /\ current_topic = CURRENT
    /\ notes # {}
    /\ \E name \in TopicNames \ topics :
          /\ ~set_current_topic(topics, current_topic, CURRENT, name).ok
          /\ ~add_note_effect(TRUE, name, NONE).ok

\* C35 as stated: after every completed operation the current path of each
\* topic, when set, is a path that exists in that topic.
C35_CurrentPathExists ==
    Idle =>
        \A topic \in topics :
            HEAD[topic] # NONE => path_exists(paths, topic, HEAD[topic])

\* C36: solve_location of any expression, valid or not, whatever it
\* returns, leaves the topics, _CURRENT, the current path of every topic,
\* the head of every path, the metadata, the notes and the index as they
\* were, and the topic get_current_topic returns is the same after as
\* before.
C36_SolveLocationReadOnly ==
    \A expr \in Exprs :
        \A r \in solve_location(topics, current_topic, CURRENT, HEAD, paths, meta,
                                captures(expr)) :
            LET e == solve_location_effect(captures(expr), r)
            IN  /\ e.topics = topics
                /\ e.CURRENT = CURRENT
                /\ e.HEAD = HEAD
                /\ e.paths = paths
                /\ e.meta = meta
                /\ e.notes = notes
                /\ e.references = references
                /\ e.index = index
                /\ get_current_topic(e.current_topic, e.CURRENT)
                       = get_current_topic(current_topic, CURRENT)

\* The current topic has no current path and no note, the other topic
\* holds a note, and the cache is empty: solve_location of HEAD loads the
\* cache, names the path main and returns no note.
C36_Witness ==
    /\ current_topic = NONE
    /\ CURRENT # NONE
    /\ HEAD[CURRENT] = NONE
    /\ notes # {}
    /\ LET r == solve_relative(topics, current_topic, CURRENT, HEAD, paths, meta,
                               HeadLocation)
       IN  /\ r = [err |-> FALSE, id |-> NoId, topic |-> CURRENT, path |-> DefaultPath]
           /\ solve_location_effect(HeadLocation, r).current_topic = CURRENT

\* C37 as stated: create_path(P, L) with a relative location L, or without
\* location, writes P in the topic L was resolved in, the topic prefix of L
\* or the current topic, also when the head of a path is a note inserted in
\* another topic; it leaves the current topic and the current path of every
\* topic as they were.
C37_CreatePathTopic ==
    \A new_path \in PathNames, has_location \in BOOLEAN,
       loc_arg \in {l \in ExprLocations : l.kind = "rel"} :
        LET loc == location_or_head(has_location, loc_arg)
        IN  \A r \in solve_location(topics, current_topic, CURRENT, HEAD, paths, meta, loc) :
                LET e == create_path_effect(new_path, has_location, loc_arg, r)
                    topic == IF loc.topic # NONE THEN loc.topic
                             ELSE get_current_topic(current_topic, CURRENT)
                IN  /\ e.ok =>
                          /\ e.topic = topic
                          /\ e.paths = write_path(paths, topic, new_path, r.id)
                    /\ get_current_topic(e.current_topic, CURRENT)
                           = get_current_topic(current_topic, CURRENT)

\* C38: a relative location whose topic prefix is the name of no topic
\* resolves to no note: with a path name, with or without modifier, the
\* result is "no note" without error, and with HEAD the resolution fails
\* with the TopicDoesNotExist of get_current_path.
C38_UnknownTopicPrefix ==
    \A expr \in Exprs :
        LET loc == captures(expr)
        IN  (loc.kind = "rel" /\ loc.topic # NONE /\ loc.topic \notin topics) =>
                \A r \in solve_location(topics, current_topic, CURRENT, HEAD, paths, meta,
                                        loc) :
                    /\ r.id = NoId
                    /\ loc.path # "HEAD" => ~r.err
                    /\ loc.path = "HEAD" =>
                          /\ r.err
                          /\ ~get_current_path(topics, HEAD, loc.topic).ok

\* The only topic holds two notes on its current path main, and the
\* locations t2/main, t2/main:-1 and t2/HEAD name a topic that is none.
C38_Witness ==
    /\ topics = {"t1"}
    /\ HEAD["t1"] = "main"
    /\ paths["t1"]["main"] = 2
    /\ meta[2].parent_id = 1
    /\ \A modifier \in 0..MaxModifier :
          /\ solve_relative(topics, current_topic, CURRENT, HEAD, paths, meta,
                            [kind |-> "rel", topic |-> "t2", path |-> "main",
                             modifier |-> modifier, subuuid |-> 0])
                 = [err |-> FALSE, id |-> NoId, topic |-> "t2", path |-> "main"]
          /\ solve_relative(topics, current_topic, CURRENT, HEAD, paths, meta,
                            [kind |-> "rel", topic |-> "t2", path |-> "HEAD",
                             modifier |-> modifier, subuuid |-> 0]).err

\* The note x is the note id or one of its ancestors by parent_id.
Reaches(id, x) == x # NoId /\ \E n \in 0..MaxNotes : Ancestor(id, n) = x

\* Two processes are in Store::add_note on the same path of the same topic.
SamePath == inflight.topic = racer.topic /\ inflight.path = racer.path

\* One process has written the head of the path and the other, which read
\* the same parent, has not yet: the head is the note of the first, and the
\* write of the second replaces it by a note whose parent it is not.
Overwrites(first, second) ==
    ( /\ first.pc \in {"write_note_metadata", "update_note_content"}
      /\ second.pc = "write_path"
      /\ SamePath
      /\ first.parent_id = second.parent_id ) =>
        /\ paths[first.topic][first.path] = first.note_id
        /\ second.parent_id # first.note_id
        /\ store_advance_head(paths, second.topic, second.path,
                              second.note_id)[first.topic][first.path] = second.note_id

\* C32: without lock, two processes in add_note on the same path can hold
\* the same parent_id; then the write of the head by the second replaces
\* the note of the first by a note that is not its child; once both have
\* written the head, it is the note of one of the two; and of two stored
\* notes of one path with the same parent_id, the head of the path reaches
\* at most one through parent links.
C32_LostUpdate ==
    /\ Overwrites(inflight, racer)
    /\ Overwrites(racer, inflight)
    /\ ( /\ inflight.pc \in {"write_note_metadata", "update_note_content"}
         /\ racer.pc \in {"write_note_metadata", "update_note_content"}
         /\ SamePath
         /\ inflight.parent_id = racer.parent_id ) =>
          paths[inflight.topic][inflight.path] \in {inflight.note_id, racer.note_id}
    /\ \A a \in Ids, b \in Ids :
          ( /\ a # b
            /\ has_metadata(meta, a)
            /\ has_metadata(meta, b)
            /\ meta[a].topic = meta[b].topic
            /\ meta[a].path = meta[b].path
            /\ meta[a].parent_id = meta[b].parent_id ) =>
              LET head == paths[meta[a].topic][meta[a].path]
              IN  ~(Reaches(head, a) /\ Reaches(head, b))

\* Both processes have returned: the two notes are stored at the same path
\* with the same parent_id, the head of the path is one of them, and the
\* other is reached from no head.
C32_Witness ==
    /\ inflight.pc = "idle"
    /\ racer.pc = "idle"
    /\ notes = {1, 2}
    /\ has_metadata(meta, 1)
    /\ has_metadata(meta, 2)
    /\ meta[1].topic = meta[2].topic
    /\ meta[1].path = meta[2].path
    /\ meta[1].parent_id = meta[2].parent_id
    /\ \E lost \in {1, 2} :
          /\ paths[meta[1].topic][meta[1].path] = 3 - lost
          /\ \A t \in TopicNames, p \in PathNames : ~Reaches(paths[t][p], lost)

====
